---- MODULE Spec2Model ----
(***************************************************************************)
(* Transcription pipeline of the video-ingest service: the Celery tasks    *)
(* media.process_upload, media.process_audio_chunk and                     *)
(* media.finalize_audio_session (app/celery_app.py), the routes that       *)
(* enqueue them and the transcript read endpoint (app/routes/media.py),    *)
(* over the object-store helpers of app/storage.py.                        *)
(*                                                                         *)
(* Strings are sequences of one-character strings, so that strip, join,    *)
(* sanitisation, zero padding and lexicographic sorting are computed.      *)
(***************************************************************************)
EXTENDS Integers, Sequences, FiniteSets, Bags, TLC

VARIABLES
    store,      \* the raw bucket: object key -> text, for the keys that exist
    queue,      \* bag of task messages waiting in the broker (all queues)
    fz,         \* the finalize execution in progress, or NoRun
    ev,         \* the step taken last and what it observed; ev.op names it
    arrivals    \* route calls and duplicate deliveries so far

vars == <<store, queue, fz, ev, arrivals>>

-----------------------------------------------------------------------------
(* Bounds of the model *)

\* largest total_chunks a finalize request declares
MaxChunks == 2
\* number of route calls (confirm-upload, audio-chunk-confirm, finalize)
\* and duplicate deliveries of the broker taken together
MaxArrivals == 3

(* Program constants *)

\* max_retries of media.process_upload
UploadMaxRetries == 3
\* max_retries of media.process_audio_chunk
ChunkMaxRetries == 3
\* mutant of FinalizeMaxRetries: the budget of the transcription tasks
FinalizeMaxRetries_small == ChunkMaxRetries
\* max_retries of media.finalize_audio_session
FinalizeMaxRetries == 6
\* max_retries of transcription.transcribe
TranscribeMaxRetries == 3
\* width of {chunk_index:06d}
PadWidth == 6

-----------------------------------------------------------------------------
(* Strings *)

NL == "\n"
Whitespace == {" ", NL}

Letters ==
    {"a","b","c","d","e","f","g","h","i","j","k","l","m","n","o","p","q","r",
     "s","t","u","v","w","x","y","z","A","B","C","D","E","F","G","H","I","J",
     "K","L","M","N","O","P","Q","R","S","T","U","V","W","X","Y","Z"}
DigitChars == <<"0","1","2","3","4","5","6","7","8","9">>

SANITIZE_ALLOWED ==
    Letters \cup {DigitChars[i] : i \in 1..10} \cup {"-", "_"}

\* code point order of the characters that occur in transcript file names
Ord(c) ==
    CASE c = "-" -> 45
      [] c = "." -> 46
      [] c \in {DigitChars[i] : i \in 1..10} ->
            47 + (CHOOSE i \in 1..10 : DigitChars[i] = c)
      [] c = "c" -> 99
      [] c = "f" -> 102
      [] c = "h" -> 104
      [] c = "i" -> 105
      [] c = "k" -> 107
      [] c = "l" -> 108
      [] c = "n" -> 110
      [] c = "t" -> 116
      [] c = "u" -> 117
      [] c = "x" -> 120
      [] c = "a" -> 97
      [] OTHER -> 0

RECURSIVE LStrip(_)
LStrip(s) ==
    IF s /= <<>> /\ Head(s) \in Whitespace THEN LStrip(Tail(s)) ELSE s

RECURSIVE RStrip(_)
RStrip(s) ==
    IF s /= <<>> /\ s[Len(s)] \in Whitespace
    THEN RStrip(SubSeq(s, 1, Len(s) - 1))
    ELSE s

\* str.strip()
Strip(s) == RStrip(LStrip(s))

\* sep.join(parts)
RECURSIVE Join(_, _)
Join(sep, parts) ==
    IF parts = <<>> THEN <<>>
    ELSE IF Len(parts) = 1 THEN parts[1]
    ELSE parts[1] \o sep \o Join(sep, Tail(parts))

\* "\n".join(t for t in transcripts if t)
JoinNonEmpty(transcripts) ==
    Join(<<NL>>, SelectSeq(transcripts, LAMBDA t : t /= <<>>))

\* the decimal digits of n >= 0
RECURSIVE Decimal(_)
Decimal(n) ==
    IF n < 10 THEN <<DigitChars[n + 1]>>
    ELSE Decimal(n \div 10) \o <<DigitChars[(n % 10) + 1]>>

RECURSIVE ZeroPad(_, _)
ZeroPad(s, width) ==
    IF Len(s) >= width THEN s ELSE ZeroPad(<<"0">> \o s, width)

\* f"{chunk_index:06d}" for chunk_index >= 0
Format06d(chunk_index) == ZeroPad(Decimal(chunk_index), PadWidth)

\* a < b in Python's string order
RECURSIVE StrLess(_, _)
StrLess(a, b) ==
    IF b = <<>> THEN FALSE
    ELSE IF a = <<>> THEN TRUE
    ELSE IF Ord(Head(a)) /= Ord(Head(b)) THEN Ord(Head(a)) < Ord(Head(b))
    ELSE StrLess(Tail(a), Tail(b))

StartsWith(s, p) == Len(s) >= Len(p) /\ SubSeq(s, 1, Len(p)) = p
EndsWith(s, p) ==
    Len(s) >= Len(p) /\ SubSeq(s, Len(s) - Len(p) + 1, Len(s)) = p

-----------------------------------------------------------------------------
(* Object keys (app/storage.py).  A key of the transcripts folder is the    *)
(* record [session, file] standing for                                     *)
(* "audio-sessions/{session}/transcripts/{file}".                          *)

\* sanitize_token
sanitize_token(value) == SelectSeq(value, LAMBDA ch : ch \in SANITIZE_ALLOWED)

FallbackSession == <<"s","e","s","s","i","o","n">>

\* sanitize_token(session_id) or "session"
safe_session(session_id) ==
    IF sanitize_token(session_id) /= <<>>
    THEN sanitize_token(session_id)
    ELSE FallbackSession

ChunkPrefix == <<"c","h","u","n","k","-">>
TxtSuffix == <<".","t","x","t">>
FinalFile == <<"f","i","n","a","l",".","t","x","t">>

build_audio_transcript_object_key(session_id, chunk_index) ==
    [session |-> safe_session(session_id),
     file |-> ChunkPrefix \o Format06d(chunk_index) \o TxtSuffix]

build_audio_final_transcript_key(session_id) ==
    [session |-> safe_session(session_id), file |-> FinalFile]

\* mutant of put_text_object: an existing object is kept
put_text_object_keep_first(s, object_key, text) ==
    [k \in DOMAIN s \cup {object_key} |->
        IF k \in DOMAIN s THEN s[k] ELSE text]

\* put_text_object: last writer wins on the key
put_text_object(s, object_key, text) ==
    [k \in DOMAIN s \cup {object_key} |->
        IF k = object_key THEN text ELSE s[k]]

\* get_text_object finds an object (otherwise it raises FileNotFoundError)
Found(s, object_key) == object_key \in DOMAIN s

\* list_objects(bucket, prefix) for prefix audio-sessions/{safe}/transcripts/
list_objects(s, safe) == {k \in DOMAIN s : k.session = safe}

-----------------------------------------------------------------------------
(* Inputs: what the clients send and what the environment answers *)

\* a raw session id sent by clients ("!" is removed by sanitize_token) and
\* one that sanitize_token empties
SessionA == <<"a", "!">>
SessionBang == <<"!">>

\* chunk indexes clients confirm (chunk_index >= 0, schemas.py)
ChunkIndexes == 0 .. MaxChunks - 1

\* first chunk index that no longer fits the zero padding
BigIndex == 10 ^ PadWidth

\* total_chunks of a finalize request (total_chunks >= 0, schemas.py)
TotalChunks == 0 .. MaxChunks

\* object keys of single-shot uploads
ObjectKeys == {"uploads/u1/clip.webm"}

\* texts the speech-to-text service returns
WhisperTexts == {<<"x">>, <<" ", "y", NL>>, <<" ">>}

MiB == 1024 * 1024
OPENAI_MAX_BYTES == 25 * 1024 * 1024

\* sizes of downloaded objects and of transcoded audio files
InputSizes == {10 * MiB, OPENAI_MAX_BYTES, OPENAI_MAX_BYTES + 1, 40 * MiB}
AudioSizes == {8 * MiB, 30 * MiB}

\* answers of head_object on a chunk object
HeadAnswers == {"ok", "empty", "missing"}

NoRun == [running |-> FALSE]
NoEvent == [op |-> "none"]

-----------------------------------------------------------------------------
(* Task messages *)

UploadTask(object_key, retries) ==
    [name |-> "media.process_upload", queue |-> "media",
     object_key |-> object_key, retries |-> retries]

ChunkTask(session_id, chunk_index, retries) ==
    [name |-> "media.process_audio_chunk", queue |-> "media",
     session_id |-> session_id, chunk_index |-> chunk_index,
     retries |-> retries]

FinalizeTask(session_id, total_chunks, retries) ==
    [name |-> "media.finalize_audio_session", queue |-> "media",
     session_id |-> session_id, total_chunks |-> total_chunks,
     retries |-> retries]

NlpTask(object_key, transcript) ==
    [name |-> "nlp.process_document", queue |-> "nlp",
     object_key |-> object_key, transcript |-> transcript]

Pending == BagToSet(queue)
Send(q, task) == q (+) SetToBag({task})
Take(q, task) == q (-) SetToBag({task})
SendAll(q, tasks) == q (+) SetToBag(tasks)

\* the messages of one named queue
OnQueue(q, name) == {t \in BagToSet(q) : t.queue = name}

\* self.retry(exc=...): the message is sent again with retries + 1, unless
\* the budget is used up, and then exc is raised and the task has failed
\* mutant of CanRetry: one retry more than the budget
CanRetry_once_more(task, max_retries) == task.retries <= max_retries
\* mutant of AfterRetry: the message is never sent again
AfterRetry_dropped(q, task, max_retries) == q

CanRetry(task, max_retries) == task.retries < max_retries
Retried(task) == [task EXCEPT !.retries = task.retries + 1]
AfterRetry(q, task, max_retries) ==
    IF CanRetry(task, max_retries) THEN Send(q, Retried(task)) ELSE q
RetryOutcome(task, max_retries) ==
    IF CanRetry(task, max_retries) THEN "retry" ELSE "failed"

-----------------------------------------------------------------------------
(* The download / transcode / size check / speech-to-text block shared by   *)
(* process_upload and process_audio_chunk.  download and transcode say     *)
(* whether the step succeeds, stt_ok whether the service answers, and      *)
(* stt_text is the text it returns.                                        *)

\* mutant of NeedsTranscode: a file of exactly the ceiling is transcoded
NeedsTranscode_at_ceiling(size) == size >= OPENAI_MAX_BYTES

NeedsTranscode(size) == size > OPENAI_MAX_BYTES
\* mutant of TooLarge: the size guard lets every file pass
TooLarge_never(size) == FALSE

TooLarge(size) == size > OPENAI_MAX_BYTES

\* mutant of TemporaryDirectory: the directory is removed on a normal exit
\* only
TemporaryDirectory_leaky(files, status) == IF status = "ok" THEN {} ELSE files

\* with tempfile.TemporaryDirectory() as temp_dir: what is left of the files
\* of temp_dir when the block is left with the result status; the context
\* manager removes the directory on a normal exit and on an exception
TemporaryDirectory(files, status) == {}

\* the files an attempt can leave in temp_dir: open(dest_path, "wb") creates
\* the input file before the download, ffmpeg writes audio.mp3
TempFiles(transcoded) == IF transcoded THEN {"input", "audio"} ELSE {"input"}

\* the result of the with-block: status, what was done, and the temporary
\* files created (temp_files) and remaining afterwards (temp_left)
Attempt(status, input_size, transcoded, stt_called, sent_size, text) ==
    [status |-> status, input_size |-> input_size, transcoded |-> transcoded,
     stt_called |-> stt_called, sent_size |-> sent_size, text |-> text,
     temp_files |-> TempFiles(transcoded),
     temp_left |-> TemporaryDirectory(TempFiles(transcoded), status)]

Transcribe(download, input_size, transcode, audio_size, stt_ok, stt_text) ==
    LET transcoded == NeedsTranscode(input_size)
        sent_size == IF transcoded THEN audio_size ELSE input_size
    IN  IF ~download
        THEN Attempt("download_failed", 0, FALSE, FALSE, 0, <<>>)
        ELSE IF transcoded /\ ~transcode
        THEN Attempt("transcode_failed", input_size, TRUE, FALSE, 0, <<>>)
        ELSE IF TooLarge(sent_size)
        THEN Attempt("too_large", input_size, transcoded, FALSE, sent_size, <<>>)
        ELSE IF ~stt_ok
        THEN Attempt("stt_failed", input_size, transcoded, TRUE, sent_size, <<>>)
        ELSE Attempt("ok", input_size, transcoded, TRUE, sent_size, stt_text)

\* every way an attempt can go
Attempts ==
    {Transcribe(d, i, t, a, ok, text) :
        d \in BOOLEAN, i \in InputSizes, t \in BOOLEAN, a \in AudioSizes,
        ok \in BOOLEAN, text \in WhisperTexts}

\* the attempts on a small object with every step working
CleanAttempts ==
    {Transcribe(TRUE, 10 * MiB, TRUE, 8 * MiB, TRUE, text) : text \in WhisperTexts}

-----------------------------------------------------------------------------
(* Routes that enqueue tasks (app/routes/media.py) *)

\* POST /confirm-upload
confirm_upload(object_key) ==
    /\ arrivals < MaxArrivals
    /\ arrivals' = arrivals + 1
    /\ queue' = Send(queue, UploadTask(object_key, 0))
    /\ ev' = [op |-> "confirm_upload", object_key |-> object_key]
    /\ UNCHANGED <<store, fz>>

\* POST /audio-chunk-confirm; head is the answer of head_object on the
\* chunk object: "missing", "empty" or "ok".  The HTTPException(400) raised
\* for an empty or missing object is caught by the handler's outer
\* "except Exception" and leaves as a 500.
confirm_audio_chunk(session_id, chunk_index, head) ==
    /\ arrivals < MaxArrivals
    /\ arrivals' = arrivals + 1
    /\ queue' = IF head = "ok"
                THEN Send(queue, ChunkTask(session_id, chunk_index, 0))
                ELSE queue
    /\ ev' = [op |-> "confirm_audio_chunk", head |-> head,
              code |-> IF head = "ok" THEN 200 ELSE 500,
              detail |-> IF head = "ok" THEN "queued"
                         ELSE "Could not queue audio chunk"]
    /\ UNCHANGED <<store, fz>>

\* POST /audio-session/finalize
finalize_audio_session_route(session_id, total_chunks) ==
    /\ arrivals < MaxArrivals
    /\ arrivals' = arrivals + 1
    /\ queue' = Send(queue, FinalizeTask(session_id, total_chunks, 0))
    /\ ev' = [op |-> "finalize_route"]
    /\ UNCHANGED <<store, fz>>

\* at-least-once delivery: the broker delivers a waiting message twice
duplicate_delivery(task) ==
    /\ arrivals < MaxArrivals
    /\ task \in Pending
    /\ task.queue = "media"
    /\ arrivals' = arrivals + 1
    /\ queue' = Send(queue, task)
    /\ ev' = [op |-> "duplicate_delivery"]
    /\ UNCHANGED <<store, fz>>

-----------------------------------------------------------------------------
(* media.process_upload (app/celery_app.py) *)

\* mutant of UploadSends: the request is sent whatever the attempt's result
UploadSends_always(task, attempt) ==
    {[name |-> "nlp.process_document", queue |-> "nlp",
      object_key |-> task.object_key, transcript |-> attempt.text]}

\* the messages process_upload sends for a finished attempt
UploadSends(task, attempt) ==
    IF attempt.status = "ok"
    THEN {NlpTask(task.object_key, attempt.text)}
    ELSE {}

process_upload(task, attempt) ==
    /\ task \in Pending
    /\ task.name = "media.process_upload"
    /\ queue' =
         SendAll(IF attempt.status = "ok" THEN Take(queue, task)
                 ELSE AfterRetry(Take(queue, task), task, UploadMaxRetries),
                 UploadSends(task, attempt))
    /\ ev' = [op |-> "process_upload", task |-> task, attempt |-> attempt,
              outcome |-> IF attempt.status = "ok" THEN "ok"
                          ELSE RetryOutcome(task, UploadMaxRetries)]
    /\ UNCHANGED <<store, fz, arrivals>>

-----------------------------------------------------------------------------
(* media.process_audio_chunk (app/celery_app.py) *)

\* the messages process_audio_chunk sends besides its own retry
ChunkSends(task, attempt) == {}

\* the object store after a successful attempt
ChunkWrite(s, task, text) ==
    put_text_object(s,
        build_audio_transcript_object_key(task.session_id, task.chunk_index),
        text)

\* the write replaces a different text stored under the same key
Replaces(s, task, text) ==
    LET key == build_audio_transcript_object_key(task.session_id, task.chunk_index)
    IN  Found(s, key) /\ s[key] /= text

\* mutant of process_audio_chunk: the transcript object is written whatever
\* the attempt's result, with the text at hand
process_audio_chunk_marking(task, attempt, put) ==
    LET ok == attempt.status = "ok" /\ put
    IN  /\ task \in Pending
        /\ task.name = "media.process_audio_chunk"
        /\ store' = ChunkWrite(store, task, attempt.text)
        /\ queue' =
             IF ok THEN Take(queue, task)
             ELSE AfterRetry(Take(queue, task), task, ChunkMaxRetries)
        /\ ev' = [op |-> "process_audio_chunk", task |-> task,
                  attempt |-> attempt, put |-> put,
                  replaced |-> ok /\ Replaces(store, task, attempt.text),
                  outcome |-> IF ok THEN "ok"
                              ELSE RetryOutcome(task, ChunkMaxRetries)]
        /\ UNCHANGED <<fz, arrivals>>

\* put is whether put_text_object succeeds
process_audio_chunk(task, attempt, put) ==
    LET ok == attempt.status = "ok" /\ put
    IN  /\ task \in Pending
        /\ task.name = "media.process_audio_chunk"
        /\ store' = IF ok THEN ChunkWrite(store, task, attempt.text) ELSE store
        /\ queue' =
             SendAll(IF ok THEN Take(queue, task)
                     ELSE AfterRetry(Take(queue, task), task, ChunkMaxRetries),
                     ChunkSends(task, attempt))
        /\ ev' = [op |-> "process_audio_chunk", task |-> task,
                  attempt |-> attempt, put |-> put,
                  replaced |-> ok /\ Replaces(store, task, attempt.text),
                  outcome |-> IF ok THEN "ok"
                              ELSE RetryOutcome(task, ChunkMaxRetries)]
        /\ UNCHANGED <<fz, arrivals>>

-----------------------------------------------------------------------------
(* media.finalize_audio_session (app/celery_app.py).  The task reads the    *)
(* chunk transcripts one get_object call at a time, so chunk tasks can run *)
(* between two reads: fz holds the execution's position and locals.        *)
(* reads and final_existed observe the execution; the code does not look   *)
(* for the final transcript before assembling.                             *)

\* mutants of MustRetry: an off-by-one on the missing list, and the test
\* turned round
MustRetry_lenient(missing) == Len(missing) > 1
MustRetry_inverted(missing) == missing = <<>>

\* if missing: raise self.retry(...)
MustRetry(missing) == missing /= <<>>

\* mutant of final_text: empty transcripts are joined too
final_text_keep_empty(transcripts) == Join(<<NL>>, transcripts)

\* the text the task assembles from the stripped texts it collected
final_text(transcripts) == JoinNonEmpty(transcripts)

\* mutant of FinalizeSends: finalize enqueues a draft-generation request
FinalizeSends_nlp(task, text) ==
    {[name |-> "nlp.process_document", queue |-> "nlp",
      object_key |-> build_audio_final_transcript_key(task.session_id),
      transcript |-> text]}

\* the messages finalize_audio_session sends after writing the final text
FinalizeSends(task, text) == {}

\* a worker takes the message; transcripts and missing start empty
finalize_begin(task) ==
    /\ ~fz.running
    /\ task \in Pending
    /\ task.name = "media.finalize_audio_session"
    /\ queue' = Take(queue, task)
    /\ fz' = [running |-> TRUE, task |-> task, idx |-> 0,
              transcripts |-> <<>>, missing |-> <<>>, reads |-> <<>>,
              final_existed |->
                  Found(store, build_audio_final_transcript_key(task.session_id))]
    /\ ev' = [op |-> "finalize_begin"]
    /\ UNCHANGED <<store, arrivals>>

\* mutant of ReadChunk: the chunks are counted from one
ReadChunk_from_one(run, s) ==
    LET key == build_audio_transcript_object_key(run.task.session_id, run.idx + 1)
    IN  IF Found(s, key)
        THEN [run EXCEPT !.idx = run.idx + 1,
                 !.transcripts = Append(run.transcripts, Strip(s[key])),
                 !.reads = Append(run.reads,
                     [idx |-> run.idx, found |-> TRUE, text |-> s[key]])]
        ELSE [run EXCEPT !.idx = run.idx + 1,
                 !.missing = Append(run.missing, run.idx),
                 !.reads = Append(run.reads,
                     [idx |-> run.idx, found |-> FALSE, text |-> <<>>])]

\* mutant of ReadChunk: the list of missing chunks holds positions counted
\* from one
ReadChunk_positions(run, s) ==
    LET key == build_audio_transcript_object_key(run.task.session_id, run.idx)
    IN  IF Found(s, key)
        THEN [run EXCEPT !.idx = run.idx + 1,
                 !.transcripts = Append(run.transcripts, Strip(s[key])),
                 !.reads = Append(run.reads,
                     [idx |-> run.idx, found |-> TRUE, text |-> s[key]])]
        ELSE [run EXCEPT !.idx = run.idx + 1,
                 !.missing = Append(run.missing, run.idx + 1),
                 !.reads = Append(run.reads,
                     [idx |-> run.idx, found |-> FALSE, text |-> <<>>])]

\* one turn of "for idx in range(total_chunks)"
ReadChunk(run, s) ==
    LET key == build_audio_transcript_object_key(run.task.session_id, run.idx)
    IN  IF Found(s, key)
        THEN [run EXCEPT !.idx = run.idx + 1,
                 !.transcripts = Append(run.transcripts, Strip(s[key])),
                 !.reads = Append(run.reads,
                     [idx |-> run.idx, found |-> TRUE, text |-> s[key]])]
        ELSE [run EXCEPT !.idx = run.idx + 1,
                 !.missing = Append(run.missing, run.idx),
                 !.reads = Append(run.reads,
                     [idx |-> run.idx, found |-> FALSE, text |-> <<>>])]

finalize_read ==
    /\ fz.running
    /\ fz.idx < fz.task.total_chunks
    /\ fz' = ReadChunk(fz, store)
    /\ ev' = [op |-> "finalize_read"]
    /\ UNCHANGED <<store, queue, arrivals>>

\* missing is the list in the RuntimeError that self.retry is given, which
\* is also the exception raised when the budget is used up
FinalizeEvent(outcome) ==
    [op |-> "finalize", outcome |-> outcome,
     session_id |-> fz.task.session_id,
     total_chunks |-> fz.task.total_chunks,
     retried |-> fz.task.retries > 0,
     missing |-> IF outcome \in {"retry", "failed"} THEN fz.missing ELSE <<>>]

\* after the loop: retry when chunks are missing, else write the final text
finalize_complete ==
    /\ fz.running
    /\ fz.idx >= fz.task.total_chunks
    /\ IF MustRetry(fz.missing)
       THEN /\ queue' = AfterRetry(queue, fz.task, FinalizeMaxRetries)
            /\ store' = store
            /\ ev' = FinalizeEvent(RetryOutcome(fz.task, FinalizeMaxRetries))
       ELSE /\ store' = put_text_object(store,
                            build_audio_final_transcript_key(fz.task.session_id),
                            final_text(fz.transcripts))
            /\ queue' = SendAll(queue,
                            FinalizeSends(fz.task, final_text(fz.transcripts)))
            /\ ev' = FinalizeEvent("ok")
    /\ fz' = NoRun
    /\ UNCHANGED arrivals

\* get_object or put_object raises an error other than key-not-found: no
\* except clause of the task catches it, so the task fails without a retry
finalize_store_error ==
    /\ fz.running
    /\ fz.idx < fz.task.total_chunks \/ ~MustRetry(fz.missing)
    /\ ev' = FinalizeEvent("error")
    /\ fz' = NoRun
    /\ UNCHANGED <<store, queue, arrivals>>

-----------------------------------------------------------------------------
(* GET /audio-session/{session_id}/transcript (app/routes/media.py) *)

\* "/chunk-" in k and k.endswith(".txt"), for a key of the transcripts folder
IsChunkTranscriptKey(k) ==
    StartsWith(k.file, ChunkPrefix) /\ EndsWith(k.file, TxtSuffix)

\* sorted(keys): the keys share the prefix, so the file names decide
RECURSIVE sorted(_)
sorted(keys) ==
    IF keys = {} THEN <<>>
    ELSE LET least == CHOOSE k \in keys :
                        \A other \in keys \ {k} : StrLess(k.file, other.file)
         IN  <<least>> \o sorted(keys \ {least})

\* the response for a store state; store_ok is FALSE when the object store
\* answers with an error other than key-not-found
transcript_response(s, session_id, store_ok) ==
    LET safe == sanitize_token(session_id)
        final_key == build_audio_final_transcript_key(session_id)
        chunk_keys == sorted({k \in list_objects(s, safe) : IsChunkTranscriptKey(k)})
        transcripts == [i \in 1..Len(chunk_keys) |-> Strip(s[chunk_keys[i]])]
    IN  IF safe = <<>>
        THEN [code |-> 400, status |-> "Invalid session id",
              transcript |-> <<>>, chunk_count |-> 0]
        ELSE IF ~store_ok
        THEN [code |-> 500, status |-> "error",
              transcript |-> <<>>, chunk_count |-> 0]
        ELSE IF Found(s, final_key)
        THEN [code |-> 200, status |-> "final",
              transcript |-> s[final_key], chunk_count |-> 0]
        ELSE IF transcripts /= <<>>
        THEN [code |-> 200, status |-> "partial",
              transcript |-> JoinNonEmpty(transcripts),
              chunk_count |-> Len(transcripts)]
        ELSE [code |-> 200, status |-> "pending",
              transcript |-> <<>>, chunk_count |-> 0]

\* mutant of get_audio_session_transcript: a partial transcript is stored as
\* the final one
get_audio_session_transcript_caching(session_id, store_ok) ==
    LET response == transcript_response(store, session_id, store_ok)
    IN  /\ ev' = [op |-> "get_transcript", session_id |-> session_id,
                  response |-> response]
        /\ store' = IF response.status = "partial"
                    THEN put_text_object(store,
                            build_audio_final_transcript_key(session_id),
                            response.transcript)
                    ELSE store
        /\ UNCHANGED <<queue, fz, arrivals>>

get_audio_session_transcript(session_id, store_ok) ==
    /\ ev' = [op |-> "get_transcript", session_id |-> session_id,
              response |-> transcript_response(store, session_id, store_ok)]
    /\ UNCHANGED <<store, queue, fz, arrivals>>

-----------------------------------------------------------------------------
(* transcription.transcribe (services/transcription/worker.py).  No code   *)
(* of the repository sends this task: its producer is outside.             *)

TranscribeTask(object_key, retries) ==
    [name |-> "transcription.transcribe", queue |-> "transcription",
     object_key |-> object_key, retries |-> retries]

\* fetch_media followed by call_whisper; get_ok says whether get_object
\* answers, size is the ContentLength of the object
TranscribeAttempt(get_ok, size, stt_ok, stt_text) ==
    IF ~get_ok
    THEN [status |-> "download_failed", input_size |-> 0, transcoded |-> FALSE,
          stt_called |-> FALSE, sent_size |-> 0, text |-> <<>>]
    ELSE IF size <= 0
    THEN [status |-> "empty", input_size |-> size,
          transcoded |-> FALSE,
          stt_called |-> FALSE, sent_size |-> 0, text |-> <<>>]
    ELSE IF size > OPENAI_MAX_BYTES
    THEN [status |-> "too_large", input_size |-> size,
          transcoded |-> FALSE,
          stt_called |-> FALSE, sent_size |-> size, text |-> <<>>]
    ELSE IF ~stt_ok
    THEN [status |-> "stt_failed", input_size |-> size,
          transcoded |-> FALSE,
          stt_called |-> TRUE, sent_size |-> size, text |-> <<>>]
    ELSE [status |-> "ok", input_size |-> size,
          transcoded |-> FALSE,
          stt_called |-> TRUE, sent_size |-> size, text |-> stt_text]

TranscribeAttempts ==
    {TranscribeAttempt(g, i, ok, text) :
        g \in BOOLEAN, i \in InputSizes, ok \in BOOLEAN, text \in WhisperTexts}

\* the producer of the task sends it
send_transcribe(object_key) ==
    /\ arrivals < MaxArrivals
    /\ arrivals' = arrivals + 1
    /\ queue' = Send(queue, TranscribeTask(object_key, 0))
    /\ ev' = [op |-> "send_transcribe", object_key |-> object_key]
    /\ UNCHANGED <<store, fz>>

transcribe(task, attempt) ==
    /\ task \in Pending
    /\ task.name = "transcription.transcribe"
    /\ queue' = IF attempt.status = "ok" THEN Take(queue, task)
                ELSE AfterRetry(Take(queue, task), task, TranscribeMaxRetries)
    /\ ev' = [op |-> "transcribe", task |-> task, attempt |-> attempt,
              outcome |-> IF attempt.status = "ok" THEN "ok"
                          ELSE RetryOutcome(task, TranscribeMaxRetries)]
    /\ UNCHANGED <<store, fz, arrivals>>

-----------------------------------------------------------------------------
(* Draft generation (services/nlp/worker.py and app/routes/nlp.py): the     *)
(* values of the JSON object the language model returns.  A value is the    *)
(* record [t, s, items]: t is "null" (also a missing key: dict.get gives    *)
(* None), "str" with the text s, "num" with the digits s, or "list" with    *)
(* the elements items, each a record [t, s].                                *)

JNull == [t |-> "null", s |-> <<>>, items |-> <<>>]
JStr(text) == [t |-> "str", s |-> text, items |-> <<>>]
JNum(digits) == [t |-> "num", s |-> digits, items |-> <<>>]
JList(elements) == [t |-> "list", s |-> <<>>, items |-> elements]

ENull == [t |-> "null", s |-> <<>>]
EStr(text) == [t |-> "str", s |-> text]
ENum(digits) == [t |-> "num", s |-> digits]

\* bool(v)
Truthy(v) ==
    CASE v.t = "null" -> FALSE
      [] v.t = "str" -> v.s /= <<>>
      [] v.t = "num" -> v.s /= <<"0">>
      [] v.t = "list" -> v.items /= <<>>

\* a or b
Or(a, b) == IF Truthy(a) THEN a ELSE b

\* str(k) for an element of a list
PyStr(k) ==
    CASE k.t = "null" -> <<"N","o","n","e">>
      [] OTHER -> k.s

\* text.split(","), from the left
RECURSIVE SplitComma(_, _)
SplitComma(text, piece) ==
    IF text = <<>> THEN <<piece>>
    ELSE IF Head(text) = ","
         THEN <<piece>> \o SplitComma(Tail(text), <<>>)
         ELSE SplitComma(Tail(text), Append(piece, Head(text)))

\* [f(k).strip() for k in parts if f(k).strip()]
RECURSIVE StripKeep(_)
StripKeep(parts) ==
    IF parts = <<>> THEN <<>>
    ELSE IF Strip(Head(parts)) = <<>> THEN StripKeep(Tail(parts))
    ELSE <<Strip(Head(parts))>> \o StripKeep(Tail(parts))

\* mutant of _normalize_keywords: the pieces are not stripped
_normalize_keywords_raw(raw_keywords) ==
    CASE raw_keywords.t = "list" ->
            SelectSeq([i \in 1..Len(raw_keywords.items) |->
                          PyStr(raw_keywords.items[i])],
                      LAMBDA k : Strip(k) /= <<>>)
      [] raw_keywords.t = "str" ->
            SelectSeq(SplitComma(raw_keywords.s, <<>>),
                      LAMBDA k : Strip(k) /= <<>>)
      [] OTHER -> <<>>

_normalize_keywords(raw_keywords) ==
    CASE raw_keywords.t = "list" ->
            StripKeep([i \in 1..Len(raw_keywords.items) |->
                          PyStr(raw_keywords.items[i])])
      [] raw_keywords.t = "str" ->
            StripKeep(SplitComma(raw_keywords.s, <<>>))
      [] OTHER -> <<>>

-----------------------------------------------------------------------------
(* Keyword normalization alone, over raw values of every type *)

\* largest number of elements of a raw list and of characters of a raw text
MaxKeywords == 2
MaxKeywordChars == 3

Seqs(S, n) == UNION {[1..k -> S] : k \in 0..n}

KeywordElements ==
    {EStr(<<"a">>), EStr(<<>>), EStr(<<" ", " ", "b", " ", " ">>),
     EStr(<<" ">>), ENull, ENum(<<"5">>)}
KeywordChars == {"a", " ", ","}

ExampleList == JList(<<EStr(<<"a">>), EStr(<<>>), EStr(<<" ", " ", "b", " ", " ">>)>>)
ExampleText == JStr(<<"a", ",", " ", "b", " ", ",", "c">>)

RawKeywords ==
    {JList(l) : l \in Seqs(KeywordElements, MaxKeywords)}
        \cup {JStr(t) : t \in Seqs(KeywordChars, MaxKeywordChars)}
        \cup {ExampleList, ExampleText, JNull, JNum(<<"5">>)}

InitKeywords ==
    /\ store = <<>>
    /\ queue = EmptyBag
    /\ fz = NoRun
    /\ arrivals = 0
    /\ \E raw \in RawKeywords : ev = [op |-> "raw_keywords", raw |-> raw]

normalize_keywords ==
    /\ ev.op = "raw_keywords"
    /\ ev' = [op |-> "_normalize_keywords", raw |-> ev.raw,
              keywords |-> _normalize_keywords(ev.raw)]
    /\ UNCHANGED <<store, queue, fz, arrivals>>

NextKeywords == normalize_keywords

SpecKeywords == InitKeywords /\ [][NextKeywords]_vars

-----------------------------------------------------------------------------
(* Draft generation: texts *)

LowerLetters ==
    <<"a","b","c","d","e","f","g","h","i","j","k","l","m",
      "n","o","p","q","r","s","t","u","v","w","x","y","z">>
UpperLetters ==
    <<"A","B","C","D","E","F","G","H","I","J","K","L","M",
      "N","O","P","Q","R","S","T","U","V","W","X","Y","Z">>

\* str.lower()
Lower(text) ==
    [i \in 1..Len(text) |->
        IF \E k \in 1..26 : UpperLetters[k] = text[i]
        THEN LowerLetters[CHOOSE k \in 1..26 : UpperLetters[k] = text[i]]
        ELSE text[i]]

\* len(text.split()): the number of runs of characters that are not blank
WordCount(text) ==
    Cardinality({i \in 1..Len(text) :
        /\ text[i] \notin Whitespace
        /\ (i = 1 \/ text[i - 1] \in Whitespace)})

\* text[:n]
Prefix(text, n) == SubSeq(text, 1, IF Len(text) < n THEN Len(text) ELSE n)

\* (value or "").strip() raises AttributeError for a value that is neither
\* falsy nor a text
StrFieldOk(v) == ~Truthy(v) \/ v.t = "str"

\* mutant of StrFieldText: the value is not stripped
StrFieldText_unstripped(v) == IF Truthy(v) THEN v.s ELSE <<>>

\* (value or "").strip()
StrFieldText(v) == IF Truthy(v) THEN Strip(v.s) ELSE <<>>

-----------------------------------------------------------------------------
(* Draft generation: the minimum transcript lengths *)

\* JOB_DRAFT_MIN_TRANSCRIPT_CHARS (its default) and the literal of /job-draft
JOB_DRAFT_MIN_TRANSCRIPT_CHARS == 30
\* the literal of /profile-draft
ProfileMinChars == 20

\* mutant of TooShort: the length of the text as sent
TooShort_unstripped(transcript, min_chars) == Len(transcript) < min_chars

\* len(transcript.strip()) < min_chars
TooShort(transcript, min_chars) == Len(Strip(transcript)) < min_chars

-----------------------------------------------------------------------------
(* Draft generation: what the environment gives one request.  config_ok    *)
(* says whether the API key and the prompt entry are there; the answer of  *)
(* the language model is "raise" (the call fails), "empty" (no content),   *)
(* "malformed" (content that json.loads rejects), "not_object" (JSON that  *)
(* is no object) or "object" with the object's values.                     *)

NoObject == [none |-> JNull]

NoWorld == [config_ok |-> FALSE, answer |-> "none", obj |-> NoObject]
World(answer, obj) == [config_ok |-> TRUE, answer |-> answer, obj |-> obj]

JobObjects ==
    [title : {JNull, JStr(<<" ", "T", " ">>), JStr(<<" ">>), JNum(<<"5">>)},
     description : {JNull, JStr(<<"D">>), JStr(<<" ">>)},
     job_description : {JNull, JStr(<<"J", " ">>)},
     keywords : {JNull, ExampleList},
     tags : {JNull, JStr(<<"t", ",">>)}]

JobWorlds ==
    {NoWorld}
      \cup {World(a, NoObject) : a \in {"raise", "empty", "malformed", "not_object"}}
      \cup {World("object", o) : o \in JobObjects}

\* the result of a request that made the external calls `calls` and failed
Failure(error, calls) == [error |-> error, calls |-> calls]

\* generate_job_draft of the worker and _draft_from_transcript of the
\* routes, after the length check: build the model, invoke it, parse and
\* normalize the answer
JobDraft(world, calls) ==
    LET o == world.obj
        built == Append(calls, "ChatOpenAI")
        invoked == Append(built, "invoke")
    IN  IF ~world.config_ok THEN Failure("config", calls)
        ELSE IF world.answer = "raise" THEN Failure("service", invoked)
        ELSE IF world.answer = "empty" THEN Failure("empty_response", invoked)
        ELSE IF world.answer = "malformed" THEN Failure("malformed", invoked)
        ELSE IF world.answer = "not_object" THEN Failure("attribute_error", invoked)
        ELSE IF ~StrFieldOk(o.title)
                  \/ ~StrFieldOk(Or(o.description, o.job_description))
             THEN Failure("attribute_error", invoked)
        ELSE LET title == StrFieldText(o.title)
                 description == StrFieldText(Or(o.description, o.job_description))
                 keywords == _normalize_keywords(
                                Or(Or(o.keywords, o.tags), JList(<<>>)))
             IN  IF title = <<>> \/ description = <<>>
                 THEN Failure("incomplete", invoked)
                 ELSE [error |-> "none", calls |-> invoked,
                       draft |-> [title |-> title, description |-> description,
                                  keywords |-> keywords]]

\* generate_job_draft of services/nlp/worker.py
generate_job_draft(transcript, world) ==
    IF TooShort(transcript, JOB_DRAFT_MIN_TRANSCRIPT_CHARS)
    THEN Failure("too_short", <<>>)
    ELSE JobDraft(world, <<>>)

\* the status code of a route for the result of its body
HttpCode(result) ==
    CASE result.error = "none" -> 200
      [] result.error = "too_short" -> 400
      [] result.error = "missing_key" -> 400
      [] result.error = "not_found" -> 404
      [] result.error = "too_large" -> 413
      [] result.error = "service" -> 502
      [] result.error = "stt_failed" -> 502
      [] OTHER -> 500

\* _draft_profile_from_transcript of the routes; transcript is stripped
ProfileDraft(transcript, world, calls) ==
    LET o == world.obj
        built == Append(calls, "ChatOpenAI")
        invoked == Append(built, "invoke")
    IN  IF ~world.config_ok THEN Failure("config", calls)
        ELSE IF world.answer = "raise" THEN Failure("service", invoked)
        ELSE IF world.answer = "empty" THEN Failure("empty_response", invoked)
        ELSE IF world.answer = "malformed" THEN Failure("malformed", invoked)
        ELSE IF world.answer = "not_object" THEN Failure("attribute_error", invoked)
        ELSE IF ~StrFieldOk(o.headline) \/ ~StrFieldOk(Or(o.summary, o.profile))
                  \/ ~StrFieldOk(o.location)
             THEN Failure("attribute_error", invoked)
        ELSE LET headline == StrFieldText(o.headline)
                 generated == StrFieldText(Or(o.summary, o.profile))
                 distinct ==
                     IF /\ generated /= <<>>
                        /\ headline /= <<>>
                        /\ Lower(Strip(generated)) = Lower(Strip(headline))
                     THEN Strip(Prefix(transcript, 200))
                     ELSE generated
                 summary ==
                     IF WordCount(distinct) < 10
                     THEN Strip(distinct \o <<" ">> \o Prefix(transcript, 400))
                     ELSE distinct
             IN  IF headline = <<>> \/ summary = <<>>
                 THEN Failure("incomplete", invoked)
                 ELSE [error |-> "none", calls |-> invoked,
                       draft |-> [headline |-> headline, summary |-> summary,
                                  location |->
                                      IF StrFieldText(o.location) = <<>>
                                      THEN JNull
                                      ELSE JStr(StrFieldText(o.location))]]

-----------------------------------------------------------------------------
(* Draft generation: inputs *)

RECURSIVE Repeat(_, _)
Repeat(text, n) == IF n = 0 THEN <<>> ELSE text \o Repeat(text, n - 1)

\* 29 characters between blanks, 30 characters, and 30 between blanks
JobShort == <<" ">> \o Repeat(<<"a">>, JOB_DRAFT_MIN_TRANSCRIPT_CHARS - 1) \o <<" ">>
JobMin == Repeat(<<"a">>, JOB_DRAFT_MIN_TRANSCRIPT_CHARS)
JobPadded == <<" ">> \o JobMin \o <<NL>>
JobTranscripts == {JobShort, JobMin, JobPadded}

\* 19 characters between blanks; ten words in 20 characters; a text longer
\* than both slices of the fallback
ProfileShort == <<" ">> \o Repeat(<<"a">>, ProfileMinChars - 1) \o <<" ">>
TenWords ==
    <<"a"," ","b"," ","c"," ","d"," ","e"," ","f"," ","g"," ","h"," ","i",
      " ","j","k">>
TenWordsUpper ==
    <<"A"," ","B"," ","C"," ","D"," ","E"," ","F"," ","G"," ","H"," ","I",
      " ","J","K">>
LongTranscript == Repeat(<<"a","b","c","d","e","f","g","h","i"," ">>, 41)
ProfileTranscripts == {ProfileShort, TenWords, LongTranscript}

ProfileObjects ==
    [headline : {JNull, JStr(<<"H">>), JStr(TenWordsUpper)},
     summary : {JNull, JStr(<<"h">>), JStr(TenWords), JStr(<<"S", " ", "s">>)},
     profile : {JNull, JStr(<<"P">>)},
     location : {JNull, JStr(<<" ", "L", " ">>)}]

ProfileWorlds ==
    {NoWorld}
      \cup {World(a, NoObject) : a \in {"raise", "empty", "malformed", "not_object"}}
      \cup {World("object", o) : o \in ProfileObjects}

\* transcripts that process_upload hands to nlp.process_document
DocumentTranscripts == {JobShort, JobPadded}

\* the videos of /job-draft-from-video and what their requests meet
VideoKeys == ObjectKeys \cup {" "}
BlankKeys == {"", " "}
VideoAttempts ==
    {Transcribe(d, i, t, a, ok, text) :
        d \in BOOLEAN, i \in {10 * MiB, 40 * MiB}, t \in BOOLEAN,
        a \in AudioSizes, ok \in BOOLEAN, text \in {<<"x">>, JobPadded}}
GoodJobObject ==
    [title |-> JStr(<<" ", "T", " ">>), description |-> JStr(<<"D">>),
     job_description |-> JNull, keywords |-> ExampleList, tags |-> JNull]
VideoWorlds ==
    {NoWorld, World("malformed", NoObject), World("object", GoodJobObject)}

-----------------------------------------------------------------------------
(* Draft generation: the task and the routes *)

\* largest number of messages in the broker
MaxDocuments == 1

\* the send_task call of process_upload after a transcription: the producer
\* of nlp.process_document
send_process_document(object_key, transcript) ==
    /\ BagCardinality(queue) < MaxDocuments
    /\ queue' = Send(queue, NlpTask(object_key, transcript))
    /\ ev' = [op |-> "send_process_document", object_key |-> object_key]
    /\ UNCHANGED <<store, fz, arrivals>>

\* nlp.process_document: the task is not bound and has no retry; an
\* exception of generate_job_draft fails it
process_document(task, world) ==
    LET result == generate_job_draft(task.transcript, world)
    IN  /\ task \in Pending
        /\ task.name = "nlp.process_document"
        /\ queue' = Take(queue, task)
        /\ ev' = [op |-> "process_document", kind |-> "job",
                  transcript |-> task.transcript, world |-> world,
                  result |-> result,
                  outcome |-> IF result.error = "none" THEN "ok" ELSE "failed"]
        /\ UNCHANGED <<store, fz, arrivals>>

\* POST /nlp/job-draft
generate_job_draft_route(transcript, world) ==
    LET result == IF TooShort(transcript, 30)
                  THEN Failure("too_short", <<>>)
                  ELSE JobDraft(world, <<>>)
    IN  /\ ev' = [op |-> "job_draft", kind |-> "job",
                  transcript |-> transcript, world |-> world,
                  result |-> result, code |-> HttpCode(result)]
        /\ UNCHANGED <<store, queue, fz, arrivals>>

\* POST /nlp/profile-draft
generate_profile_draft(transcript, world) ==
    LET result == IF TooShort(transcript, ProfileMinChars)
                  THEN Failure("too_short", <<>>)
                  ELSE ProfileDraft(Strip(transcript), world, <<>>)
    IN  /\ ev' = [op |-> "profile_draft", kind |-> "profile",
                  transcript |-> transcript, world |-> world,
                  result |-> result, code |-> HttpCode(result)]
        /\ UNCHANGED <<store, queue, fz, arrivals>>

\* the request ends before the with-block: nothing is downloaded
NoAttempt ==
    [status |-> "download_failed", input_size |-> 0, transcoded |-> FALSE,
     stt_called |-> FALSE, sent_size |-> 0, text |-> <<>>,
     temp_files |-> {}, temp_left |-> {}]

\* _transcribe_object: the client is built first, then the shared block
TranscribeObject(attempt, world) ==
    IF ~world.config_ok THEN "config"
    ELSE CASE attempt.status = "download_failed" -> "not_found"
           [] attempt.status = "transcode_failed" -> "transcode_failed"
           [] attempt.status = "too_large" -> "too_large"
           [] attempt.status = "stt_failed" -> "stt_failed"
           [] attempt.status = "ok" -> "none"

\* POST /nlp/job-draft-from-video
generate_job_draft_from_video(object_key, attempt, world) ==
    LET transcribed == TranscribeObject(attempt, world)
        calls == IF world.config_ok /\ attempt.stt_called
                 THEN <<"speech_to_text">> ELSE <<>>
        result ==
            IF object_key \in BlankKeys THEN Failure("missing_key", <<>>)
            ELSE IF transcribed /= "none" THEN Failure(transcribed, calls)
            ELSE IF TooShort(attempt.text, 30) THEN Failure("too_short", calls)
            ELSE JobDraft(world, calls)
    IN  /\ ev' = [op |-> "job_draft_from_video", kind |-> "job",
                  object_key |-> object_key,
                  attempt |-> IF object_key \in BlankKeys \/ ~world.config_ok
                              THEN NoAttempt
                              ELSE attempt,
                  ran |-> object_key \notin BlankKeys /\ world.config_ok,
                  transcript |-> attempt.text, world |-> world,
                  result |-> result, code |-> HttpCode(result)]
        /\ UNCHANGED <<store, queue, fz, arrivals>>

-----------------------------------------------------------------------------
(* Draft generation: the prompt configuration.  Each process (the nlp      *)
(* worker, the backend) has its own module global _prompt_config_cache,    *)
(* None until a load succeeds.  prompts.json is "missing", "invalid" (no   *)
(* JSON), some JSON value that is no object, or a "dict" of prompt         *)
(* entries; an entry is a "dict" of fields or some other JSON value, and a *)
(* field that the entry does not have is JAbsent.                          *)

NoCache == [t |-> "None"]
JAbsent == [t |-> "absent", s |-> <<>>, items |-> <<>>]

PromptEntry(system_prompt, model, temperature, max_tokens, response_format) ==
    [t |-> "dict", system_prompt |-> system_prompt, model |-> model,
     temperature |-> temperature, max_tokens |-> max_tokens,
     response_format |-> response_format]
PromptConfig(job_draft, profile_draft) ==
    [t |-> "dict", job_draft |-> job_draft, profile_draft |-> profile_draft]

\* the outcome of a step of the configuration: the cache it leaves, whether
\* prompts.json was read, and the error it raised or "none"
ConfigStep(cache, read, error, value) ==
    [cache |-> cache, read |-> read, error |-> error, value |-> value]

\* mutant of _load_prompt_config: the file is read for every request
_load_prompt_config_uncached(cache, file) ==
    IF file.t = "missing" THEN ConfigStep(cache, FALSE, "file_missing", NoCache)
    ELSE IF file.t = "invalid" THEN ConfigStep(cache, TRUE, "json_invalid", NoCache)
    ELSE IF file.t /= "dict" THEN ConfigStep(cache, TRUE, "not_object", NoCache)
    ELSE ConfigStep(file, TRUE, "none", file)

\* mutant of _load_prompt_config: what was parsed is cached before the test
\* of its type
_load_prompt_config_eager(cache, file) ==
    IF cache /= NoCache THEN ConfigStep(cache, FALSE, "none", cache)
    ELSE IF file.t = "missing" THEN ConfigStep(cache, FALSE, "file_missing", NoCache)
    ELSE IF file.t = "invalid" THEN ConfigStep(cache, TRUE, "json_invalid", NoCache)
    ELSE IF file.t /= "dict" THEN ConfigStep(file, TRUE, "not_object", NoCache)
    ELSE ConfigStep(file, TRUE, "none", file)

_load_prompt_config(cache, file) ==
    IF cache /= NoCache THEN ConfigStep(cache, FALSE, "none", cache)
    ELSE IF file.t = "missing" THEN ConfigStep(cache, FALSE, "file_missing", NoCache)
    ELSE IF file.t = "invalid" THEN ConfigStep(cache, TRUE, "json_invalid", NoCache)
    ELSE IF file.t /= "dict" THEN ConfigStep(cache, TRUE, "not_object", NoCache)
    ELSE ConfigStep(file, TRUE, "none", file)

\* config.get(key)
PromptEntryOf(config, prompt_key) ==
    IF prompt_key = "job_draft" THEN config.job_draft ELSE config.profile_draft

\* not isinstance(value, str) or not value.strip()
MissingPromptStr(value) == value.t /= "str" \/ Strip(value.s) = <<>>

Digits == {"0", "1", "2", "3", "4", "5", "6", "7", "8", "9"}
\* float(value) and int(value) succeed: a number, or a text of digits
Numeric(value) ==
    \/ value.t = "num"
    \/ /\ value.t = "str"
       /\ Strip(value.s) /= <<>>
       /\ \A i \in 1..Len(Strip(value.s)) : Strip(value.s)[i] \in Digits

\* _build_prompt_settings: the error of the first check that fails
PromptSettingsError(entry) ==
    IF entry.t /= "dict" THEN "entry_invalid"
    ELSE IF MissingPromptStr(entry.system_prompt) THEN "missing_system_prompt"
    ELSE IF MissingPromptStr(entry.model) THEN "missing_model"
    ELSE IF entry.temperature.t /= "absent" /\ ~Numeric(entry.temperature)
         THEN "invalid_temperature"
    ELSE IF entry.max_tokens.t \notin {"absent", "null"}
               /\ ~Numeric(entry.max_tokens)
         THEN "invalid_max_tokens"
    ELSE IF /\ entry.response_format.t /= "absent"
            /\ entry.response_format /= JStr(<<"j","s","o","n","_","o","b","j","e","c","t">>)
            /\ entry.response_format /= JNull
            /\ entry.response_format /= JStr(<<>>)
            /\ entry.response_format /= JStr(<<"t","e","x","t">>)
         THEN "unsupported_response_format"
    ELSE "none"

\* mutant of _build_chat_model: the configuration is loaded before the test
\* of the API key
_build_chat_model_loads_first(prompt_key, api_key, cache, file) ==
    LET loaded == _load_prompt_config(cache, file)
    IN  IF ~api_key THEN ConfigStep(loaded.cache, loaded.read, "api_key", NoCache)
        ELSE IF loaded.error /= "none" THEN loaded
        ELSE ConfigStep(loaded.cache, loaded.read,
                        PromptSettingsError(
                            PromptEntryOf(loaded.value, prompt_key)),
                        loaded.value)

\* _build_chat_model, up to the construction of ChatOpenAI: the API key is
\* tested first, then the settings are taken from the loaded configuration
_build_chat_model(prompt_key, api_key, cache, file) ==
    IF ~api_key THEN ConfigStep(cache, FALSE, "api_key", NoCache)
    ELSE LET loaded == _load_prompt_config(cache, file)
         IN  IF loaded.error /= "none" THEN loaded
             ELSE ConfigStep(loaded.cache, loaded.read,
                             PromptSettingsError(
                                 PromptEntryOf(loaded.value, prompt_key)),
                             loaded.value)

-----------------------------------------------------------------------------
(* Draft generation with the configuration of each process.  The caches of *)
(* the two processes and the settings of the backend (read from the        *)
(* environment when the process starts) are carried from step to step in   *)
(* ev.caches and ev.settings; the nlp worker reads OPENAI_API_KEY from the *)
(* environment at every request.                                           *)

GoodEntry == PromptEntry(JStr(<<" ", "s">>), JStr(<<"m">>), JAbsent, JAbsent, JAbsent)
FileMissing == [t |-> "missing"]
FileInvalid == [t |-> "invalid"]
ConfigGood == PromptConfig(GoodEntry, GoodEntry)
ConfigNoModel ==
    PromptConfig([GoodEntry EXCEPT !.model = JStr(<<" ">>)],
                 [GoodEntry EXCEPT !.system_prompt = JAbsent])
ConfigNoProfile ==
    PromptConfig([GoodEntry EXCEPT !.max_tokens = JList(<<>>)], JNull)
ConfigBadFormat ==
    PromptConfig([GoodEntry EXCEPT !.temperature = JStr(<<"x">>)],
                 [GoodEntry EXCEPT !.response_format = JStr(<<"x">>),
                                   !.temperature = JStr(<<"1">>),
                                   !.max_tokens = JNull])
ConfigFiles ==
    {FileMissing, FileInvalid, JList(<<>>), ConfigGood, ConfigNoModel,
     ConfigNoProfile, ConfigBadFormat}

GoodProfileObject ==
    [headline |-> JStr(<<"H">>), summary |-> JStr(TenWords),
     profile |-> JNull, location |-> JNull]
ConfigJobWorlds == {World("malformed", NoObject), World("object", GoodJobObject)}

NoCaches == [worker |-> NoCache, backend |-> NoCache]

\* no model is built: the request ended at the length check
NotBuilt(cache) == ConfigStep(cache, FALSE, "not_built", NoCache)

\* what the request meets once its configuration step is done
Met(built, world) == IF built.error = "none" THEN world ELSE NoWorld

\* the send_task call of process_upload, in a behaviour that carries the
\* process state
enqueue_document(object_key, transcript) ==
    /\ BagCardinality(queue) < MaxDocuments
    /\ queue' = Send(queue, NlpTask(object_key, transcript))
    /\ ev' = [op |-> "send_process_document", process |-> "backend",
              caches |-> ev.caches, settings |-> ev.settings]
    /\ UNCHANGED <<store, fz, arrivals>>

\* nlp.process_document in the worker process
process_document_in_worker(task, api_key, file, world) ==
    LET cache == ev.caches.worker
        built == IF TooShort(task.transcript, JOB_DRAFT_MIN_TRANSCRIPT_CHARS)
                 THEN NotBuilt(cache)
                 ELSE _build_chat_model("job_draft", api_key, cache, file)
        result == generate_job_draft(task.transcript, Met(built, world))
    IN  /\ task \in Pending
        /\ task.name = "nlp.process_document"
        /\ queue' = Take(queue, task)
        /\ ev' = [op |-> "process_document", process |-> "worker",
                  prompt_key |-> "job_draft",
                  transcript |-> task.transcript, api_key |-> api_key,
                  file |-> file, world |-> world, before |-> cache,
                  built |-> built, result |-> result,
                  outcome |-> IF result.error = "none" THEN "ok" ELSE "failed",
                  caches |-> [ev.caches EXCEPT !.worker = built.cache],
                  settings |-> ev.settings]
        /\ UNCHANGED <<store, fz, arrivals>>

\* POST /nlp/job-draft in the backend process
job_draft_in_backend(transcript, file, world) ==
    LET cache == ev.caches.backend
        api_key == ev.settings.OPENAI_API_KEY
        built == IF TooShort(transcript, 30)
                 THEN NotBuilt(cache)
                 ELSE _build_chat_model("job_draft", api_key, cache, file)
        result == IF TooShort(transcript, 30)
                  THEN Failure("too_short", <<>>)
                  ELSE JobDraft(Met(built, world), <<>>)
    IN  /\ ev' = [op |-> "job_draft", process |-> "backend",
                  prompt_key |-> "job_draft",
                  transcript |-> transcript, api_key |-> api_key,
                  file |-> file, world |-> world, before |-> cache,
                  built |-> built, result |-> result,
                  code |-> HttpCode(result),
                  caches |-> [ev.caches EXCEPT !.backend = built.cache],
                  settings |-> ev.settings]
        /\ UNCHANGED <<store, queue, fz, arrivals>>

\* POST /nlp/profile-draft in the backend process
profile_draft_in_backend(transcript, file, world) ==
    LET cache == ev.caches.backend
        api_key == ev.settings.OPENAI_API_KEY
        built == IF TooShort(transcript, ProfileMinChars)
                 THEN NotBuilt(cache)
                 ELSE _build_chat_model("profile_draft", api_key, cache, file)
        result == IF TooShort(transcript, ProfileMinChars)
                  THEN Failure("too_short", <<>>)
                  ELSE ProfileDraft(Strip(transcript), Met(built, world), <<>>)
    IN  /\ ev' = [op |-> "profile_draft", process |-> "backend",
                  prompt_key |-> "profile_draft",
                  transcript |-> transcript, api_key |-> api_key,
                  file |-> file, world |-> world, before |-> cache,
                  built |-> built, result |-> result,
                  code |-> HttpCode(result),
                  caches |-> [ev.caches EXCEPT !.backend = built.cache],
                  settings |-> ev.settings]
        /\ UNCHANGED <<store, queue, fz, arrivals>>

InitConfig ==
    /\ store = <<>>
    /\ queue = EmptyBag
    /\ fz = NoRun
    /\ arrivals = 0
    /\ \E k \in BOOLEAN :
          ev = [op |-> "process_start", process |-> "backend",
                caches |-> NoCaches, settings |-> [OPENAI_API_KEY |-> k]]

NextConfig ==
    \/ \E k \in ObjectKeys, tr \in DocumentTranscripts : enqueue_document(k, tr)
    \/ \E t \in Pending, k \in BOOLEAN, f \in ConfigFiles, w \in ConfigJobWorlds :
          process_document_in_worker(t, k, f, w)
    \/ \E tr \in {JobShort, JobMin}, f \in ConfigFiles :
          job_draft_in_backend(tr, f, World("object", GoodJobObject))
    \/ \E f \in ConfigFiles :
          profile_draft_in_backend(TenWords, f, World("object", GoodProfileObject))

SpecConfig == InitConfig /\ [][NextConfig]_vars

-----------------------------------------------------------------------------
(* The chunked path: one recording session, its chunk tasks and finalize   *)
(* tasks, with the transcription steps working                             *)

Init ==
    /\ store = <<>>
    /\ queue = EmptyBag
    /\ fz = NoRun
    /\ ev = NoEvent
    /\ arrivals = 0

Next ==
    \/ \E i \in ChunkIndexes, head \in HeadAnswers :
          confirm_audio_chunk(SessionA, i, head)
    \/ \E n \in TotalChunks : finalize_audio_session_route(SessionA, n)
    \/ \E t \in Pending : duplicate_delivery(t)
    \/ \E t \in Pending, a \in CleanAttempts : process_audio_chunk(t, a, TRUE)
    \/ \E t \in Pending : finalize_begin(t)
    \/ finalize_read
    \/ finalize_complete
    \/ finalize_store_error

Spec == Init /\ [][Next]_vars

-----------------------------------------------------------------------------
(* The chunked path under a fair broker and fair workers: a message that   *)
(* waits is eventually taken, and a running task eventually takes its next *)
(* step.                                                                   *)

LiveSpec ==
    /\ Init
    /\ [][Next]_vars
    /\ WF_vars(\E t \in Pending, a \in CleanAttempts : process_audio_chunk(t, a, TRUE))
    /\ WF_vars(\E t \in Pending : finalize_begin(t))
    /\ WF_vars(finalize_read)
    /\ WF_vars(finalize_complete)

-----------------------------------------------------------------------------
(* The two transcription workers alone, with every failure of an attempt   *)

NextWorkers ==
    \/ \E k \in ObjectKeys : confirm_upload(k)
    \/ \E head \in HeadAnswers : confirm_audio_chunk(SessionA, 0, head)
    \/ \E t \in Pending : duplicate_delivery(t)
    \/ \E t \in Pending, a \in Attempts : process_upload(t, a)
    \/ \E t \in Pending, a \in Attempts, put \in BOOLEAN :
          process_audio_chunk(t, a, put)
    \/ \E k \in ObjectKeys, i \in {10 * MiB, 40 * MiB}, a \in AudioSizes :
          generate_job_draft_from_video(
              k, Transcribe(TRUE, i, TRUE, a, TRUE, JobPadded),
              World("object", GoodJobObject))

SpecWorkers == Init /\ [][NextWorkers]_vars

-----------------------------------------------------------------------------
(* Every retrying task of the pipeline, with every failure of an attempt   *)
(* and without duplicate deliveries: each message on the queue descends    *)
(* from one enqueue                                                        *)

\* one attempt of each kind: the object is empty or has 40 MiB, and the
\* service answers "x" when it answers
RetryAttempts ==
    {Transcribe(d, i, t, a, ok, <<"x">>) :
        d \in BOOLEAN, i \in {0, 40 * MiB}, t \in BOOLEAN, a \in AudioSizes,
        ok \in BOOLEAN}

TranscribeRetryAttempts ==
    {TranscribeAttempt(g, i, ok, <<"x">>) :
        g \in BOOLEAN, i \in {0, 10 * MiB, 40 * MiB}, ok \in BOOLEAN}

NextRetries ==
    \/ \E k \in ObjectKeys : confirm_upload(k)
    \/ confirm_audio_chunk(SessionA, 0, "ok")
    \/ \E k \in ObjectKeys : send_transcribe(k)
    \/ finalize_audio_session_route(SessionA, 1)
    \/ \E t \in Pending, a \in RetryAttempts : process_upload(t, a)
    \/ \E t \in Pending, a \in RetryAttempts, put \in BOOLEAN :
          process_audio_chunk(t, a, put)
    \/ \E t \in Pending, a \in TranscribeRetryAttempts : transcribe(t, a)
    \/ \E t \in Pending : finalize_begin(t)
    \/ finalize_read
    \/ finalize_complete
    \/ finalize_store_error

SpecRetries == Init /\ [][NextRetries]_vars

-----------------------------------------------------------------------------
(* Every caller of the speech-to-text service: the two media tasks, the    *)
(* transcription worker and the route that transcribes a video, one        *)
(* message at a time, with every size on both sides of the ceiling         *)

NextStt ==
    \/ \E k \in ObjectKeys :
          BagCardinality(queue) < MaxDocuments /\ confirm_upload(k)
    \/ BagCardinality(queue) < MaxDocuments
          /\ confirm_audio_chunk(SessionA, 0, "ok")
    \/ \E k \in ObjectKeys :
          BagCardinality(queue) < MaxDocuments /\ send_transcribe(k)
    \/ \E t \in Pending, a \in Attempts : process_upload(t, a)
    \/ \E t \in Pending, a \in Attempts : process_audio_chunk(t, a, TRUE)
    \/ \E t \in Pending, a \in TranscribeAttempts : transcribe(t, a)
    \/ \E k \in ObjectKeys, a \in VideoAttempts :
          generate_job_draft_from_video(k, a, World("object", GoodJobObject))

SpecStt == Init /\ [][NextStt]_vars

-----------------------------------------------------------------------------
(* One confirmed upload: its task with retries and duplicate deliveries    *)

NextOnce ==
    \/ \E k \in ObjectKeys : arrivals = 0 /\ confirm_upload(k)
    \/ \E t \in Pending : duplicate_delivery(t)
    \/ \E t \in Pending, a \in Attempts : process_upload(t, a)

SpecOnce == Init /\ [][NextOnce]_vars

-----------------------------------------------------------------------------
(* The read endpoint over the stores the chunk and finalize tasks produce, *)
(* with chunk indexes on both sides of the zero padding's range            *)

ReadSessionIds == {SessionA, SessionBang}
ReadIndexes == {BigIndex - 1, BigIndex}

NextRead ==
    \/ \E sid \in ReadSessionIds, i \in ReadIndexes :
          confirm_audio_chunk(sid, i, "ok")
    \/ \E sid \in ReadSessionIds : finalize_audio_session_route(sid, 0)
    \/ \E t \in Pending, a \in CleanAttempts : process_audio_chunk(t, a, TRUE)
    \/ \E t \in Pending : finalize_begin(t)
    \/ finalize_complete
    \/ \E sid \in ReadSessionIds, store_ok \in BOOLEAN :
          get_audio_session_transcript(sid, store_ok)

SpecRead == Init /\ [][NextRead]_vars

-----------------------------------------------------------------------------
(* Draft generation: the nlp task with its producer, and the three draft   *)
(* routes                                                                  *)

NextDraft ==
    \/ \E k \in ObjectKeys, tr \in DocumentTranscripts :
          send_process_document(k, tr)
    \/ \E t \in Pending, w \in JobWorlds : process_document(t, w)
    \/ \E tr \in JobTranscripts, w \in JobWorlds :
          generate_job_draft_route(tr, w)
    \/ \E tr \in ProfileTranscripts, w \in ProfileWorlds :
          generate_profile_draft(tr, w)
    \/ \E k \in VideoKeys, a \in VideoAttempts, w \in VideoWorlds :
          generate_job_draft_from_video(k, a, w)

SpecDraft == Init /\ [][NextDraft]_vars

-----------------------------------------------------------------------------
(* Two recordings side by side: chunks are confirmed and transcribed for   *)
(* the session ids of WriterIds only, and finalize and the read endpoint   *)
(* are called for the ids of ReaderIds only.  No id is in both sets.       *)

SessionPlain == <<"a">>
WriterIds == {SessionA, SessionBang}
ReaderIds == {SessionPlain, FallbackSession}

NextSessions ==
    \/ \E w \in WriterIds : confirm_audio_chunk(w, 0, "ok")
    \/ \E t \in Pending, a \in CleanAttempts : process_audio_chunk(t, a, TRUE)
    \/ \E r \in ReaderIds, n \in 0..1 : finalize_audio_session_route(r, n)
    \/ \E t \in Pending : finalize_begin(t)
    \/ finalize_read
    \/ finalize_complete
    \/ \E r \in ReaderIds : get_audio_session_transcript(r, TRUE)

SpecSessions == Init /\ [][NextSessions]_vars

-----------------------------------------------------------------------------
(* The transcode step: ffmpeg ends with returncode and has written stderr. *)
(* A failure is the exception the step raises: its fixed text and the      *)
(* piece of stderr that follows it.                                        *)

\* the 400 of (result.stderr or "").strip()[-400:]
SnippetChars == 400

\* text[-n:]
Suffix(text, n) ==
    IF Len(text) <= n THEN text ELSE SubSeq(text, Len(text) - n + 1, Len(text))

NoFailure == [raised |-> FALSE, detail |-> "", snippet |-> <<>>]

\* mutant of transcode_to_audio: the beginning of stderr is kept
transcode_to_audio_head(returncode, stderr) ==
    IF returncode /= 0
    THEN [raised |-> TRUE, detail |-> "ffmpeg failed to extract audio: ",
          snippet |-> Prefix(Strip(stderr), SnippetChars)]
    ELSE NoFailure

\* transcode_to_audio of app/celery_app.py
transcode_to_audio(returncode, stderr) ==
    IF returncode /= 0
    THEN [raised |-> TRUE, detail |-> "ffmpeg failed to extract audio: ",
          snippet |-> Suffix(Strip(stderr), SnippetChars)]
    ELSE NoFailure

\* _transcode_to_audio of app/routes/nlp.py
_transcode_to_audio(returncode, stderr) ==
    IF returncode /= 0
    THEN [raised |-> TRUE,
          detail |-> "Failed to extract audio for transcription.",
          snippet |-> <<>>]
    ELSE NoFailure

\* what ffmpeg wrote: nothing, a short line, exactly SnippetChars
\* characters, and more than that with blanks around
Filled == [i \in 1..SnippetChars |-> "e"]
Diagnostics ==
    {<<>>,
     <<" ", "e", NL>>,
     Filled,
     <<" ", "z">> \o Filled \o <<NL>>}

\* an attempt on an object of 40 MiB, which is transcoded, with what ffmpeg
\* returned and the failure of the transcode step
FfmpegAttempt(returncode, stderr, failure, stt_text) ==
    [returncode |-> returncode, stderr |-> stderr, exc |-> failure]
        @@ Transcribe(TRUE, 40 * MiB, ~failure.raised, 8 * MiB, TRUE, stt_text)

TaskFfmpegAttempts ==
    {FfmpegAttempt(rc, d, transcode_to_audio(rc, d), <<"x">>) :
        rc \in {0, 1}, d \in Diagnostics}
RouteFfmpegAttempts ==
    {FfmpegAttempt(rc, d, _transcode_to_audio(rc, d), JobPadded) :
        rc \in {0, 1}, d \in Diagnostics}

NextTranscode ==
    \/ \E k \in ObjectKeys : confirm_upload(k)
    \/ confirm_audio_chunk(SessionA, 0, "ok")
    \/ \E t \in Pending, a \in TaskFfmpegAttempts : process_upload(t, a)
    \/ \E t \in Pending, a \in TaskFfmpegAttempts :
          process_audio_chunk(t, a, TRUE)
    \/ \E k \in ObjectKeys, a \in RouteFfmpegAttempts :
          generate_job_draft_from_video(k, a, World("object", GoodJobObject))

SpecTranscode == Init /\ [][NextTranscode]_vars

-----------------------------------------------------------------------------
(* Vocabulary of the properties *)

Range(f) == {f[i] : i \in DOMAIN f}

IsFinalKey(k) == k.file = FinalFile
FinalKey(session_id) == build_audio_final_transcript_key(session_id)
ChunkKey(session_id, i) == build_audio_transcript_object_key(session_id, i)

\* every chunk transcript 0..n-1 of the session exists
AllPresent(session_id, n) ==
    \A i \in 0 .. n - 1 : ChunkKey(session_id, i) \in DOMAIN store

FinalExists(session_id) == FinalKey(session_id) \in DOMAIN store

\* the running finalize execution found an object at every index 0..n-1
FoundAll(run) ==
    \A i \in 0 .. run.task.total_chunks - 1 :
        \E r \in Range(run.reads) : r.idx = i /\ r.found

\* the step is the end of a finalize execution with status ok
FinalizeSucceeds ==
    fz.running /\ ev'.op = "finalize" /\ ev'.outcome = "ok"

\* s without leading and trailing whitespace, by positions
Trimmed(s) ==
    LET black == {i \in DOMAIN s : s[i] \notin Whitespace}
    IN  IF black = {} THEN <<>>
        ELSE SubSeq(s, CHOOSE i \in black : \A j \in black : i <= j,
                       CHOOSE i \in black : \A j \in black : j <= i)

\* the trimmed, non-empty texts at indexes 0..n-1, each but the first after
\* a newline; text_at gives the text of an index
RECURSIVE InIndexOrder(_, _)
InIndexOrder(text_at, n) ==
    IF n = 0 THEN <<>>
    ELSE LET before == InIndexOrder(text_at, n - 1)
             t == Trimmed(text_at[n - 1])
         IN  IF t = <<>> THEN before
             ELSE IF before = <<>> THEN t
             ELSE before \o <<NL>> \o t

\* the text the running finalize execution read at each index
TextsRead(run) ==
    [i \in 0 .. run.task.total_chunks - 1 |->
        (CHOOSE r \in Range(run.reads) : r.idx = i).text]

-----------------------------------------------------------------------------
(* Properties of finalize_audio_session *)

\* C1: a finalize execution ends with status ok only if its read of every
\* chunk transcript key 0..total_chunks-1 found an object, and a final
\* transcript is created or changed only by such an execution, under the key
\* of its own session.
C1_FinalizeNeedsAllChunks ==
    [][ /\ FinalizeSucceeds => FoundAll(fz)
        /\ \A k \in DOMAIN store' :
              (IsFinalKey(k) /\ (k \notin DOMAIN store \/ store'[k] /= store[k]))
              => /\ FinalizeSucceeds
                 /\ FoundAll(fz)
                 /\ k = FinalKey(fz.task.session_id) ]_vars

\* a finalize of two chunks succeeded on a retry
C1_Witness ==
    /\ ev.op = "finalize"
    /\ ev.outcome = "ok"
    /\ ev.total_chunks = 2
    /\ ev.retried
    /\ FinalExists(ev.session_id)

\* a finalize message for n chunks of the session waits in the broker: the
\* task has an attempt left
FinalizeWaiting(session_id, n) ==
    \E t \in Pending :
        /\ t.name = "media.finalize_audio_session"
        /\ t.session_id = session_id
        /\ t.total_chunks = n

\* a finalize message for n chunks waits or is being executed
FinalizeRequested(session_id, n) ==
    \/ FinalizeWaiting(session_id, n)
    \/ fz.running /\ fz.task.session_id = session_id /\ fz.task.total_chunks = n

FinalizeStoreError == ev.op = "finalize" /\ ev.outcome = "error"

C3_FinalTextInIndexOrder ==
    [][ FinalizeSucceeds =>
          /\ FinalKey(fz.task.session_id) \in DOMAIN store'
          /\ store'[FinalKey(fz.task.session_id)]
                = InIndexOrder(TextsRead(fz), fz.task.total_chunks) ]_vars

\* chunk 0 holds "x" and chunk 1 holds " y\n"; a finalize that was retried
\* because a chunk was missing wrote "x\ny"
C3_Witness ==
    /\ ev.op = "finalize"
    /\ ev.outcome = "ok"
    /\ ev.retried
    /\ ev.total_chunks = 2
    /\ ChunkKey(SessionA, 0) \in DOMAIN store
    /\ ChunkKey(SessionA, 1) \in DOMAIN store
    /\ store[ChunkKey(SessionA, 0)] = <<"x">>
    /\ store[ChunkKey(SessionA, 1)] = <<" ", "y", NL>>
    /\ FinalExists(SessionA)
    /\ store[FinalKey(SessionA)] = <<"x", NL, "y">>

\* C4: a finalize execution that starts when the final transcript exists
\* takes one step only, which returns ok without having read a chunk
\* transcript and without writing to the object store.
C4_ShortCircuitOnExistingFinal ==
    [][ (fz.running /\ fz.final_existed /\ fz' /= fz) =>
          /\ ~fz'.running
          /\ fz.reads = <<>>
          /\ store' = store
          /\ ev'.op = "finalize"
          /\ ev'.outcome = "ok" ]_vars

\* C5: the content of a final transcript that exists is the same in the
\* next state, whatever the step.
C5_FinalTranscriptImmutable ==
    [][ \A k \in DOMAIN store :
          IsFinalKey(k) => k \in DOMAIN store' /\ store'[k] = store[k] ]_vars

-----------------------------------------------------------------------------
(* Properties of process_audio_chunk and process_upload *)

\* C6: an execution of process_audio_chunk that succeeds leaves the text of
\* this execution under the chunk transcript key of (session_id,
\* chunk_index), whatever was stored there before, and every other key as it
\* was; an execution that fails leaves the object store as it was.
C6_ChunkWriteOverwrites ==
    [][ ev'.op = "process_audio_chunk" =>
          LET key == ChunkKey(ev'.task.session_id, ev'.task.chunk_index)
          IN  IF ev'.outcome = "ok"
              THEN /\ DOMAIN store' = DOMAIN store \cup {key}
                   /\ store'[key] = ev'.attempt.text
                   /\ \A k \in DOMAIN store : k /= key => store'[k] = store[k]
              ELSE store' = store ]_vars

\* a second execution for the same chunk replaced a different text
C6_Witness ==
    /\ ev.op = "process_audio_chunk"
    /\ ev.outcome = "ok"
    /\ ev.replaced
    /\ store[ChunkKey(ev.task.session_id, ev.task.chunk_index)] = ev.attempt.text

\* the messages of the nlp queue, with their numbers
NlpBag(q) == [t \in {m \in BagToSet(q) : m.queue = "nlp"} |-> q[t]]

\* C9: the nlp queue changes only when process_upload ends an attempt whose
\* speech-to-text call succeeded, and then by one request that carries the
\* text of that attempt and the object key of the upload; an attempt that
\* fails and every execution of process_audio_chunk leave it as it was, and
\* a successful process_audio_chunk writes the chunk transcript.
C9_DraftRequestOnlyAfterUploadTranscribed ==
    [][ /\ (ev'.op = "process_upload" /\ ev'.attempt.status = "ok")
            => /\ ev'.attempt.stt_called
               /\ NlpBag(queue')
                    = NlpBag(queue) (+)
                        SetToBag({NlpTask(ev'.task.object_key, ev'.attempt.text)})
        /\ ~(ev'.op = "process_upload" /\ ev'.attempt.status = "ok")
            => NlpBag(queue') = NlpBag(queue)
        /\ (ev'.op = "process_audio_chunk" /\ ev'.outcome = "ok")
            => /\ ChunkKey(ev'.task.session_id, ev'.task.chunk_index)
                    \in DOMAIN store'
               /\ store'[ChunkKey(ev'.task.session_id, ev'.task.chunk_index)]
                    = ev'.attempt.text ]_vars

\* an upload was transcribed on a retry and its request waits on the nlp
\* queue
C9_Witness ==
    /\ ev.op = "process_upload"
    /\ ev.outcome = "ok"
    /\ ev.task.retries > 0
    /\ NlpTask(ev.task.object_key, ev.attempt.text) \in Pending

-----------------------------------------------------------------------------
(* Properties of the chunked path's hand-off *)

-----------------------------------------------------------------------------
(* Properties of the transcript read endpoint *)

\* every chunk index of the model
AllIndexes == ChunkIndexes \cup ReadIndexes

\* the indexes whose chunk transcript exists
ExistingIndexes(session_id) ==
    {i \in AllIndexes : ChunkKey(session_id, i) \in DOMAIN store}

\* the trimmed, non-empty chunk transcripts of the indexes, joined by a
\* newline from the smallest index to the largest
RECURSIVE AscendingJoin(_, _)
AscendingJoin(session_id, indexes) ==
    IF indexes = {} THEN <<>>
    ELSE LET last == CHOOSE i \in indexes : \A j \in indexes : j <= i
             before == AscendingJoin(session_id, indexes \ {last})
             t == Trimmed(store[ChunkKey(session_id, last)])
         IN  IF t = <<>> THEN before
             ELSE IF before = <<>> THEN t
             ELSE before \o <<NL>> \o t

\* C7: when the endpoint answers, it answers final with the final transcript
\* if that exists; else partial with the existing chunk transcripts joined in
\* ascending chunk_index order and their number, if there is one; else
\* pending with an empty text and zero.
C7_ReadEndpointResponse ==
    (ev.op = "get_transcript" /\ ev.response.code = 200) =>
        IF FinalExists(ev.session_id)
        THEN /\ ev.response.status = "final"
             /\ ev.response.transcript = store[FinalKey(ev.session_id)]
        ELSE IF ExistingIndexes(ev.session_id) /= {}
        THEN /\ ev.response.status = "partial"
             /\ ev.response.transcript
                  = AscendingJoin(ev.session_id, ExistingIndexes(ev.session_id))
             /\ ev.response.chunk_count = Cardinality(ExistingIndexes(ev.session_id))
        ELSE /\ ev.response.status = "pending"
             /\ ev.response.transcript = <<>>
             /\ ev.response.chunk_count = 0

\* C8: a call of the read endpoint, whatever it answers, leaves the object
\* store, the broker's queues and the running tasks as they were.
C8_ReadEndpointWritesNothing ==
    [][ ev'.op = "get_transcript" =>
          /\ store' = store
          /\ queue' = queue
          /\ fz' = fz ]_vars

\* the endpoint answered partial while a message waited in the broker
C8_Witness ==
    /\ ev.op = "get_transcript"
    /\ ev.response.status = "partial"
    /\ ev.response.chunk_count = 2
    /\ queue /= EmptyBag
    /\ store /= <<>>

-----------------------------------------------------------------------------
(* Properties of the failure handling of the transcription workers *)

\* the step is an execution of one of the two media transcription tasks
MediaTranscriptionStep ==
    ev'.op \in {"process_upload", "process_audio_chunk"}

\* C11: an attempt of process_upload or process_audio_chunk that finds the
\* file handed to speech-to-text over the size ceiling fails the task: the
\* message is taken from the queue and none is sent again.
C11_PayloadTooLargeIsTerminal ==
    [][ (MediaTranscriptionStep /\ ev'.attempt.status = "too_large")
          => /\ ev'.outcome = "failed"
             /\ queue' = Take(queue, ev'.task) ]_vars

\* the step is an execution of one of the three transcription tasks
TranscriptionStep ==
    ev'.op \in {"process_upload", "process_audio_chunk", "transcribe"}

\* max_retries of the task a message names
Budget(name) ==
    CASE name = "media.process_upload" -> UploadMaxRetries
      [] name = "media.process_audio_chunk" -> ChunkMaxRetries
      [] name = "transcription.transcribe" -> TranscribeMaxRetries
      [] name = "media.finalize_audio_session" -> FinalizeMaxRetries

\* the attempt of a media worker ran on an empty object: nothing was
\* transcoded and a file of size 0 went to speech-to-text
EmptySource(attempt) ==
    attempt.stt_called /\ ~attempt.transcoded /\ attempt.sent_size = 0

\* the attempt met one of the four causes
RetriedCause(attempt) ==
    \/ attempt.status \in {"download_failed", "transcode_failed", "stt_failed", "empty"}
    \/ EmptySource(attempt)

\* the task of the step is sent again with one retry more
Rescheduled ==
    /\ ev'.outcome = "retry"
    /\ queue' = Send(Take(queue, ev'.task), Retried(ev'.task))

Copies(q, m) == IF m \in BagToSet(q) THEN q[m] ELSE 0

\* the step adds no message of the retrying tasks to the queue
NoTaskAdded(before) ==
    \A m \in BagToSet(queue') :
        m.queue /= "nlp" => Copies(queue', m) <= Copies(before, m)

\* C13: no message waits with more retries than the task's max_retries; an
\* execution of a transcription task or of finalize either ends the task,
\* adding no message, or sends it again once with one retry more, and it
\* ends it when the retries have reached max_retries - for finalize also
\* when chunk transcripts are missing.  The retry count of a message grows
\* with each re-scheduling and is bounded, so no task is re-scheduled for
\* ever: 1 + 3 executions of a transcription task, 1 + 6 of finalize.
C13_RetryBudgetsAreFinite ==
    [][ /\ \A m \in BagToSet(queue') :
              m.queue /= "nlp" => m.retries <= Budget(m.name)
        /\ TranscriptionStep =>
              IF ev'.outcome = "retry"
              THEN /\ ev'.task.retries < Budget(ev'.task.name)
                   /\ queue' = Send(Take(queue, ev'.task), Retried(ev'.task))
              ELSE /\ NoTaskAdded(Take(queue, ev'.task))
                   /\ ev'.outcome = "failed"
                        => ev'.task.retries = Budget(ev'.task.name)
        /\ (ev'.op = "finalize") =>
              IF ev'.outcome = "retry"
              THEN /\ fz.task.retries < FinalizeMaxRetries
                   /\ queue' = Send(queue, Retried(fz.task))
              ELSE /\ queue' = queue
                   /\ ev'.outcome = "failed"
                        => fz.task.retries = FinalizeMaxRetries ]_vars

\* finalize ran out of its retries with the chunk transcript still missing,
\* and no finalize message is left
C13_Witness ==
    /\ ev.op = "finalize"
    /\ ev.outcome = "failed"
    /\ ~AllPresent(SessionA, 1)
    /\ ~FinalizeRequested(SessionA, 1)

\* C14: finalize's max_retries is larger than that of each transcription
\* task: a finalize task that has been retried as often as a transcription
\* task may be retried in all can still be retried.
C14_FinalizeBudgetIsLarger ==
    /\ FinalizeMaxRetries > UploadMaxRetries
    /\ FinalizeMaxRetries > ChunkMaxRetries
    /\ FinalizeMaxRetries > TranscribeMaxRetries
    /\ \A t \in Pending :
          (t.name = "media.finalize_audio_session"
              /\ t.retries <= ChunkMaxRetries)
            => CanRetry(t, FinalizeMaxRetries)

\* the chunk task wrote its transcript on its last permitted attempt while
\* a finalize message that had been retried as often still waited
C14_Witness ==
    /\ ev.op = "process_audio_chunk"
    /\ ev.outcome = "ok"
    /\ ev.task.retries = ChunkMaxRetries
    /\ AllPresent(SessionA, 1)
    /\ \E t \in Pending :
          /\ t.name = "media.finalize_audio_session"
          /\ t.retries >= ChunkMaxRetries

-----------------------------------------------------------------------------
(* Properties of draft generation *)

\* the steps that generate a draft, and those among them that are routes
DraftOps == {"process_document", "job_draft", "profile_draft", "job_draft_from_video"}
DraftRoutes == DraftOps \ {"process_document"}

\* the per-kind minimum of the stripped transcript's length
MinChars(kind) == IF kind = "profile" THEN 20 ELSE 30

\* the request of step e got as far as the length check
LengthChecked(e) ==
    /\ e.op \in DraftOps
    /\ e.op = "job_draft_from_video" => e.ran /\ e.attempt.status = "ok"

\* the language model was neither built nor invoked
NoModelCall(result) ==
    \A i \in 1..Len(result.calls) : result.calls[i] \notin {"ChatOpenAI", "invoke"}

\* the step puts no message on the queue
NothingSent == \A m \in BagToSet(queue') : Copies(queue', m) <= Copies(queue, m)

\* C15: a draft request whose transcript has, once stripped, fewer characters
\* than the minimum of its kind (30 for a job, 20 for a profile) is rejected
\* as too short (400 on a route) without the language model being built or
\* invoked, and the step sends nothing again; a transcript that reaches the
\* minimum is not rejected as too short
C15_TooShortRejectedBeforeModel ==
    [][LengthChecked(ev') =>
          IF Len(Strip(ev'.transcript)) < MinChars(ev'.kind)
          THEN /\ ev'.result.error = "too_short"
               /\ NoModelCall(ev'.result)
               /\ ev'.op \in DraftRoutes => ev'.code = 400
               /\ NothingSent
          ELSE ev'.result.error /= "too_short"]_vars

\* the worker rejected a transcript of more than 30 characters that has 29
\* once stripped
C15_Witness ==
    /\ ev.op = "process_document"
    /\ Len(ev.transcript) > 30
    /\ Len(Strip(ev.transcript)) = 29
    /\ ev.result.error = "too_short"
    /\ ev.result.calls = <<>>

\* how many times the request invoked the language model
Invocations(result) ==
    Cardinality({i \in 1..Len(result.calls) : result.calls[i] = "invoke"})

\* C16: when the language model's content does not parse as JSON, the
\* draft is attempted a second time: the task is sent again, or the request
\* invokes the language model twice
C16_MalformedOutputIsRetriedOnce ==
    [][(ev'.op \in DraftOps /\ ev'.result.error = "malformed") =>
          \/ ~NothingSent
          \/ Invocations(ev'.result) = 2]_vars

\* a text without whitespace at its ends that is not empty
IsTrimmedText(text) ==
    /\ text /= <<>>
    /\ text[1] \notin Whitespace
    /\ text[Len(text)] \notin Whitespace

\* the value of a key, or of its synonym when the value is null or ""
Looked(o, key, synonym) ==
    IF o[key].t = "str" /\ o[key].s /= <<>> THEN o[key] ELSE o[synonym]

\* a value that leaves nothing once trimmed
Blank(v) == v.t = "null" \/ (v.t = "str" /\ Trimmed(v.s) = <<>>)

\* a required field of the answer of step e is empty after normalization
RequiredEmpty(e) ==
    IF e.kind = "job"
    THEN \/ Blank(e.world.obj.title)
         \/ Blank(Looked(e.world.obj, "description", "job_description"))
    ELSE Blank(e.world.obj.headline)

\* the draft of result r holds trimmed non-empty required fields, and
\* trimmed non-empty keywords
WellFormed(e) ==
    IF e.kind = "job"
    THEN /\ IsTrimmedText(e.result.draft.title)
         /\ e.result.draft.title = Trimmed(e.world.obj.title.s)
         /\ IsTrimmedText(e.result.draft.description)
         /\ \A i \in 1..Len(e.result.draft.keywords) :
               IsTrimmedText(e.result.draft.keywords[i])
    ELSE /\ IsTrimmedText(e.result.draft.headline)
         /\ e.result.draft.headline = Trimmed(e.world.obj.headline.s)
         /\ IsTrimmedText(e.result.draft.summary)

\* C17: a returned draft has a trimmed non-empty title and description
\* (headline and summary for a profile) and keywords that are trimmed
\* non-empty strings; an answer whose required field is empty after
\* trimming and synonym lookup fails as incomplete, with no draft, after one
\* invocation of the language model, and nothing is sent again
C17_DraftsAreComplete ==
    [][ev'.op \in DraftOps =>
          /\ ev'.result.error = "none" => WellFormed(ev')
          /\ ev'.result.error \in {"none", "incomplete"} =>
                (ev'.result.error = "incomplete" <=> RequiredEmpty(ev'))
          /\ ev'.result.error = "incomplete" =>
                /\ "draft" \notin DOMAIN ev'.result
                /\ Invocations(ev'.result) = 1
                /\ NothingSent
                /\ ev'.op \in DraftRoutes => ev'.code = 500]_vars

\* the worker returned a draft whose title was trimmed, whose description
\* came from the synonym key and whose keywords lost a blank element
C17_Witness ==
    /\ ev.op = "process_document"
    /\ ev.result.error = "none"
    /\ ev.world.obj.description = JNull
    /\ ev.world.obj.title.s /= ev.result.draft.title
    /\ ev.result.draft.description = <<"J">>
    /\ ev.result.draft.keywords = << <<"a">>, <<"b">> >>

\* C19: a profile draft returned for a model output with a headline has a
\* summary that is not empty and that differs from the returned headline
\* when letter case is ignored
C19_SummaryNeverDuplicatesHeadline ==
    (/\ ev.op = "profile_draft"
     /\ ev.result.error = "none") =>
        /\ ev.result.draft.summary /= <<>>
        /\ Lower(ev.result.draft.summary) /= Lower(ev.result.draft.headline)

\* the positions of the parts that are not blank
Kept(parts) == {i \in 1..Len(parts) : Trimmed(parts[i]) /= <<>>}

\* result is the trimmed non-blank parts, in the order of parts
IsTrimmedNonEmpty(result, parts) ==
    /\ Len(result) = Cardinality(Kept(parts))
    /\ \A i \in Kept(parts) :
          result[Cardinality({j \in Kept(parts) : j <= i})] = Trimmed(parts[i])

\* the positions of the commas of a text, with both ends
Cuts(text) ==
    {0, Len(text) + 1} \cup {i \in 1..Len(text) : text[i] = ","}

\* the pieces of a text between two neighbouring commas or ends
Pieces(text) ==
    LET cut(k) == CHOOSE c \in Cuts(text) :
                      Cardinality({d \in Cuts(text) : d < c}) = k
    IN  [k \in 1 .. Cardinality(Cuts(text)) - 1 |->
            SubSeq(text, cut(k - 1) + 1, cut(k) - 1)]

\* C18: _normalize_keywords gives, for a list, its elements as texts,
\* trimmed, without those that are blank, in the order of the list; for a
\* text, its comma-separated pieces, trimmed, without the blank ones, in
\* their order; for any other value the empty list.  "a, b ,c" gives
\* [a, b, c] and ["a", "", "  b  "] gives [a, b].
C18_KeywordsNormalized ==
    ev.op = "_normalize_keywords" =>
        /\ ev.raw.t = "list" =>
              IsTrimmedNonEmpty(ev.keywords,
                  [i \in 1..Len(ev.raw.items) |-> PyStr(ev.raw.items[i])])
        /\ ev.raw.t = "str" => IsTrimmedNonEmpty(ev.keywords, Pieces(ev.raw.s))
        /\ ev.raw.t \notin {"list", "str"} => ev.keywords = <<>>
        /\ ev.raw = ExampleText => ev.keywords = <<<<"a">>, <<"b">>, <<"c">>>>
        /\ ev.raw = ExampleList => ev.keywords = <<<<"a">>, <<"b">>>>

\* "a, b ,c" has been normalized to three keywords
C18_Witness ==
    /\ ev.op = "_normalize_keywords"
    /\ ev.raw = ExampleText
    /\ Len(ev.keywords) = 3

-----------------------------------------------------------------------------
(* Properties of the transcode gate *)

\* the steps that run the download / transcode / size check / transcription
\* block, once the download has succeeded
Downloaded(e) ==
    /\ e.op \in {"process_upload", "process_audio_chunk", "job_draft_from_video"}
    /\ e.attempt.status /= "download_failed"

-----------------------------------------------------------------------------
(* Properties of the temporary files *)

\* the step ran the with-block of a transcription
RanTranscription(e) ==
    \/ e.op \in {"process_upload", "process_audio_chunk"}
    \/ e.op = "job_draft_from_video" /\ e.ran

\* C21: when an invocation that downloads and transcribes has ended, with
\* success, with a retry or with a failure of the download, the transcode,
\* the size check or the speech-to-text call, none of the temporary files
\* it created (the downloaded input, the transcoded audio) remains
C21_TemporaryFilesRemoved ==
    RanTranscription(ev) =>
        /\ "input" \in ev.attempt.temp_files
        /\ ev.attempt.transcoded => "audio" \in ev.attempt.temp_files
        /\ ev.attempt.temp_left = {}

\* an upload was retried after a failed transcode that had both files
C21_Witness ==
    /\ ev.op = "process_upload"
    /\ ev.outcome = "retry"
    /\ ev.attempt.status = "transcode_failed"
    /\ ev.attempt.temp_files = {"input", "audio"}
-----------------------------------------------------------------------------
(* Properties of the routing *)

\* C22: tasks of different kinds wait on different named queues: no two
\* waiting messages with different task names share a queue
C22_OneQueuePerTaskKind ==
    \A t1, t2 \in Pending : t1.name /= t2.name => t1.queue /= t2.queue
-----------------------------------------------------------------------------
(* Properties of the order of confirmations and reads *)

\* the chunk (session_id, idx) has been confirmed and enqueued: its task
\* waits, or has written its transcript (on the chunked path a chunk task
\* leaves the queue only by writing, and nothing deletes a transcript)
ConfirmedChunk(session_id, idx) ==
    \/ \E t \in Pending :
          /\ t.name = "media.process_audio_chunk"
          /\ t.session_id = session_id
          /\ t.chunk_index = idx
    \/ Found(store, build_audio_transcript_object_key(session_id, idx))

\* C23: the finalize task reads the chunk-transcript key of an index only
\* after the chunk of that index has been confirmed and enqueued
C23_ChunkReadOnlyAfterConfirm ==
    [][ev'.op = "finalize_read" =>
          ConfirmedChunk(fz.task.session_id, fz.idx)]_vars
-----------------------------------------------------------------------------
(* Properties of the assembled session *)

\* C24: once the final transcript of the session exists, it exists in
\* every later state, and a finalize execution that starts afterwards and
\* meets no object-store error ends with status ok, without a retry
C24_AssembledIsTerminal ==
    [][Found(store, build_audio_final_transcript_key(SessionA)) =>
          /\ Found(store', build_audio_final_transcript_key(SessionA))
          /\ (/\ ev'.op = "finalize"
              /\ fz.final_existed
              /\ ev'.outcome /= "error") => ev'.outcome = "ok"]_vars
-----------------------------------------------------------------------------
(* Properties of finalize under object-store errors *)

\* C25: a finalize execution that meets an object-store error other than
\* key-not-found while it reads a chunk transcript or writes the final
\* transcript is sent again with one retry more, as long as its budget
\* lasts
C25_StoreErrorIsRetried ==
    [][(/\ ev'.op = "finalize"
        /\ ev'.outcome = "error"
        /\ fz.task.retries < FinalizeMaxRetries) =>
          Copies(queue', Retried(fz.task)) = Copies(queue, Retried(fz.task)) + 1]_vars
-----------------------------------------------------------------------------
(* Properties of the chunk transcript as completion signal *)

\* the keys of chunk transcripts that the step creates or changes
WrittenChunkKeys ==
    {k \in DOMAIN store' :
        /\ IsChunkTranscriptKey(k)
        /\ k \notin DOMAIN store \/ store'[k] /= store[k]}

-----------------------------------------------------------------------------
(* Properties of the size ceiling *)

\* the steps that can call the speech-to-text service
SttCaller(e) ==
    \/ e.op \in {"process_upload", "process_audio_chunk", "transcribe"}
    \/ e.op = "job_draft_from_video" /\ e.ran

\* C27: the speech-to-text service is called only with a file of at most
\* the ceiling: a file that is larger when the call is due (the download
\* as it is, or the transcoded audio) is refused as too large and the
\* service is not called
C27_SttWithinCeiling ==
    SttCaller(ev) =>
        /\ ev.attempt.stt_called => ev.attempt.sent_size <= OPENAI_MAX_BYTES
        /\ ev.attempt.sent_size > OPENAI_MAX_BYTES =>
              /\ ~ev.attempt.stt_called
              /\ ev.attempt.status = "too_large"

\* the transcription worker sent a file of exactly the ceiling
C27_Witness ==
    /\ ev.op = "transcribe"
    /\ ev.attempt.stt_called
    /\ ev.attempt.sent_size = OPENAI_MAX_BYTES
-----------------------------------------------------------------------------
(* Properties of the chunk confirmation *)

\* C28: confirm_audio_chunk enqueues a chunk task exactly when the chunk
\* object exists and is not empty; for an empty or a missing object it
\* enqueues nothing and answers 400 with the reason
C28_ConfirmValidatesChunk ==
    [][ev'.op = "confirm_audio_chunk" =>
          IF ev'.head = "ok"
          THEN /\ ev'.code = 200
               /\ BagCardinality(queue') = BagCardinality(queue) + 1
          ELSE /\ queue' = queue
               /\ ev'.code = 400
               /\ ev'.head = "empty" =>
                     ev'.detail = "Uploaded audio chunk is empty."
               /\ ev'.head = "missing" =>
                     ev'.detail = "Uploaded audio chunk not found."]_vars
-----------------------------------------------------------------------------
(* Properties of concurrent and duplicate executions *)

\* no message waits and no finalize execution is under way
Quiescent == queue = EmptyBag /\ ~fz.running

\* C29: when every task has finished and the last of them was a finalize
\* that succeeded for exactly the chunks whose transcripts exist, the final
\* transcript is the newline join, in index order, of the chunk transcripts
\* in the store
C29_FinalMatchesChunksAtRest ==
    (/\ Quiescent
     /\ ev.op = "finalize"
     /\ ev.outcome = "ok"
     /\ ExistingIndexes(SessionA) = 0 .. ev.total_chunks - 1) =>
        /\ FinalExists(SessionA)
        /\ store[FinalKey(SessionA)]
              = AscendingJoin(SessionA, ExistingIndexes(SessionA))
-----------------------------------------------------------------------------
(* Properties of one upload *)

\* C30: for one confirmed upload at most one draft-generation request is
\* ever on the nlp queue, whatever the retries and the duplicate deliveries
\* of its task
C30_OneDraftRequestPerUpload == BagCardinality(NlpBag(queue)) <= 1

-----------------------------------------------------------------------------
(* Properties of the prompt configuration *)

LoadErrors == {"file_missing", "json_invalid", "not_object"}
EntryErrors ==
    {"entry_invalid", "missing_system_prompt", "missing_model",
     "invalid_temperature", "invalid_max_tokens", "unsupported_response_format"}
ConfigErrors == LoadErrors \cup EntryErrors \cup {"api_key"}

ConfigRequests == {"process_document", "job_draft", "profile_draft"}

\* the step was a draft request that met a configuration error
ConfigFailed(e) == e.op \in ConfigRequests /\ e.built.error \in ConfigErrors

\* the request failed with no call of the draft-generation service
FailedBeforeService(e) ==
    /\ e.result.error = "config"
    /\ e.result.calls = <<>>
    /\ e.op = "process_document" => e.outcome = "failed"
    /\ e.op /= "process_document" => e.code = 500

\* the step sent no message: a task taken from the broker is gone, a route
\* leaves the broker as it was
NothingResent(e) ==
    IF e.op = "process_document"
    THEN BagCardinality(queue') = BagCardinality(queue) - 1
    ELSE queue' = queue

\* the same request, made again in the state this one left, fails with the
\* same error
FailsAgain(e) ==
    _build_chat_model(e.prompt_key, e.api_key, e.caches[e.process], e.file).error
        = e.built.error

\* the next step is the same request of the same process over the same file
\* and API key
SameRequest(e, f) ==
    /\ f.op = e.op
    /\ f.file = e.file
    /\ f.api_key = e.api_key
    /\ f.built.error /= "not_built"

\* C31, as claimed: a request that meets a configuration error fails before
\* the draft-generation service is invoked, is not sent again, and leaves
\* the configuration cache of its process unset, and the same request made
\* again fails the same way
C31_ConfigErrorLeavesCacheUnset ==
    [][ConfigFailed(ev') =>
          /\ FailedBeforeService(ev')
          /\ NothingResent(ev')
          /\ ev'.caches[ev'.process] = NoCache
          /\ FailsAgain(ev')]_vars

\* C31, amended: a request that meets a configuration error fails before
\* the draft-generation service is invoked and is not sent again; a load
\* that fails leaves the cache unset, a missing API key leaves the cache as
\* it was without a load, and an invalid prompt entry is found in a
\* configuration that is cached; in each case the same request made again
\* fails the same way
C31_ConfigErrorIsFatal ==
    [][/\ ConfigFailed(ev') =>
            /\ FailedBeforeService(ev')
            /\ NothingResent(ev')
            /\ ev'.built.error \in LoadErrors =>
                  /\ ev'.before = NoCache
                  /\ ev'.caches[ev'.process] = NoCache
            /\ ev'.built.error = "api_key" =>
                  /\ ev'.caches[ev'.process] = ev'.before
                  /\ ~ev'.built.read
            /\ ev'.built.error \in EntryErrors =>
                  /\ ev'.caches[ev'.process] /= NoCache
                  /\ ev'.before \in {NoCache, ev'.caches[ev'.process]}
            /\ FailsAgain(ev')
       /\ (ConfigFailed(ev) /\ SameRequest(ev, ev')) =>
            ev'.built.error = ev.built.error]_vars

\* the backend refused a job draft because prompts.json is missing, and its
\* cache is still unset
C31_Witness ==
    /\ ev.op = "job_draft"
    /\ ev.built.error = "file_missing"
    /\ ev.caches.backend = NoCache
    /\ ev.code = 500
    /\ ev.result.calls = <<>>

\* the step was a draft request that went to the prompt configuration
UsedConfig(e) ==
    /\ e.op \in ConfigRequests
    /\ e.built.error \notin {"not_built", "api_key"}

\* C37: once a load has succeeded in a process, the cache of that process
\* never changes, and every later request of the process that goes to the
\* configuration takes the cached one without reading prompts.json; the
\* first load that succeeds caches what it read
C37_ConfigLoadedOnce ==
    [][/\ \A p \in {"worker", "backend"} :
            ev.caches[p] /= NoCache => ev'.caches[p] = ev.caches[p]
       /\ (UsedConfig(ev') /\ ev.caches[ev'.process] /= NoCache) =>
            /\ ~ev'.built.read
            /\ ev'.built.value = ev.caches[ev'.process]
       /\ (UsedConfig(ev') /\ ev.caches[ev'.process] = NoCache
              /\ ev'.built.error \notin LoadErrors) =>
            /\ ev'.built.read
            /\ ev'.built.value = ev'.file
            /\ ev'.caches[ev'.process] = ev'.file]_vars

\* the worker drafted a job from the configuration it had cached, while
\* prompts.json on disk had become invalid
C37_Witness ==
    /\ ev.op = "process_document"
    /\ ev.before = ConfigGood
    /\ ev.file = FileInvalid
    /\ ~ev.built.read
    /\ ev.built.value = ConfigGood
    /\ ev.result.error = "none"

-----------------------------------------------------------------------------
(* Properties of the keys of a session *)

\* C32: with chunk transcripts written for other session ids only, a
\* finalize execution finds no chunk transcript, and the read endpoint
\* returns no chunk transcript and no text assembled from one
C32_SessionsAreIsolated ==
    /\ (fz.running /\ fz.task.session_id \in ReaderIds) =>
          \A i \in 1..Len(fz.reads) : ~fz.reads[i].found
    /\ (ev.op = "get_transcript" /\ ev.session_id \in ReaderIds) =>
          /\ ev.response.chunk_count = 0
          /\ ev.response.transcript = <<>>

\* C33: when the store holds the final transcript of a session id and
\* answers, the read endpoint called with that id returns status final with
\* the stored text
C33_ReadFindsWhatFinalizeWrote ==
    (/\ ev.op = "get_transcript"
     /\ ev.response.code /= 500
     /\ Found(store, build_audio_final_transcript_key(ev.session_id))) =>
        /\ ev.response.code = 200
        /\ ev.response.status = "final"
        /\ ev.response.transcript =
              store[build_audio_final_transcript_key(ev.session_id)]

-----------------------------------------------------------------------------
(* Properties of what a finalize execution reads *)

\* the step is a read of the loop, and it looked for the chunk transcript of
\* the next index below total_chunks, in the store as it is at that moment
ReadsNextIndex ==
    LET read == fz'.reads[Len(fz'.reads)]
        key == build_audio_transcript_object_key(fz.task.session_id, fz.idx)
    IN  /\ Len(fz'.reads) = fz.idx + 1
        /\ fz.idx < fz.task.total_chunks
        /\ read.idx = fz.idx
        /\ read.found <=> Found(store, key)
        /\ read.found => read.text = store[key]

\* the step ends an execution whose reads all answered
Decides == fz.running /\ ev'.op = "finalize" /\ ev'.outcome /= "error"

AllFound == \A i \in 1..Len(fz.reads) : fz.reads[i].found

\* C34: a finalize execution reads the chunk transcripts of the indices
\* 0..total_chunks-1 and no other; it writes the final transcript exactly
\* when all of these were found, as the join of their stripped non-empty
\* texts, and changes no other object; with total_chunks = 0 it succeeds on
\* the first attempt and writes the empty text
C34_FinalDependsOnRequestedChunks ==
    [][/\ (fz.running /\ ev'.op = "finalize_read") => ReadsNextIndex
       /\ Decides =>
            LET n == fz.task.total_chunks
                final_key == build_audio_final_transcript_key(fz.task.session_id)
            IN  /\ Len(fz.reads) = n
                /\ ev'.outcome = "ok" <=> AllFound
                /\ AllFound =>
                      store' = put_text_object(store, final_key,
                                  JoinNonEmpty([i \in 1..n |->
                                                  Strip(fz.reads[i].text)]))
                /\ ~AllFound => store' = store
                /\ n = 0 =>
                      /\ ev'.outcome = "ok"
                      /\ fz.task.retries = 0
                      /\ store'[final_key] = <<>>]_vars

\* the final transcript of a request for one chunk was written as "y" while
\* the transcript of chunk 1 lay in the store with the text "x"
C34_Witness ==
    /\ ev.op = "finalize"
    /\ ev.outcome = "ok"
    /\ ev.total_chunks = 1
    /\ Found(store, build_audio_transcript_object_key(SessionA, 1))
    /\ store[build_audio_transcript_object_key(SessionA, 1)] = <<"x">>
    /\ store[build_audio_final_transcript_key(SessionA)] = <<"y">>

\* the indices in 0..total_chunks-1 that the execution did not find, in
\* ascending order
RECURSIVE NotFound(_)
NotFound(reads) ==
    IF reads = <<>> THEN <<>>
    ELSE IF Head(reads).found THEN NotFound(Tail(reads))
    ELSE <<Head(reads).idx>> \o NotFound(Tail(reads))

Ascending(list) == \A i \in 1..Len(list) - 1 : list[i] < list[i + 1]

\* C35: when a finalize execution ends with chunks missing, the exception
\* it hands to the retry lists exactly the indices below total_chunks whose
\* chunk transcript it did not find, in ascending order, and the execution
\* writes nothing
C35_RetryCarriesMissingIndices ==
    [][(Decides /\ ev'.outcome \in {"retry", "failed"}) =>
          /\ ev'.missing /= <<>>
          /\ ev'.missing = NotFound(fz.reads)
          /\ Ascending(ev'.missing)
          /\ \A i \in 1..Len(ev'.missing) :
                ev'.missing[i] \in 0..fz.task.total_chunks - 1
          /\ {ev'.missing[i] : i \in 1..Len(ev'.missing)} =
                {i \in 0..fz.task.total_chunks - 1 : ~fz.reads[i + 1].found}
          /\ store' = store]_vars

\* a finalize execution for two chunks was sent again with chunk 1 missing
C35_Witness ==
    /\ ev.op = "finalize"
    /\ ev.outcome = "retry"
    /\ ev.total_chunks = 2
    /\ ev.missing = <<1>>
    /\ ~Found(store, build_audio_final_transcript_key(SessionA))

-----------------------------------------------------------------------------
(* Properties of the transcode step *)

TranscodeSteps == {"process_upload", "process_audio_chunk", "job_draft_from_video"}

\* the step ran ffmpeg and it ended with a non-zero return code
FfmpegFailed(e) == e.op \in TranscodeSteps /\ e.attempt.returncode /= 0

\* the message the task was taken from, sent again
Resent(e) == Retried(e.task) \in Pending

\* C36: when ffmpeg ends with a non-zero return code the attempt fails at
\* the transcode step, before speech-to-text; in the tasks the exception
\* holds the last SnippetChars characters of the stripped stderr, all of it
\* when it is shorter, and goes to self.retry: the task is sent again while
\* it has a retry left; in the route the failure is HTTP 500 with none of
\* stderr; and when ffmpeg returns zero no failure is raised
C36_TranscodeFailureIsBoundedAndRetried ==
    /\ FfmpegFailed(ev) =>
          LET a == ev.attempt
              text == Strip(a.stderr)
          IN  /\ a.status = "transcode_failed"
              /\ ~a.stt_called
              /\ a.exc.raised
              /\ Len(a.exc.snippet) <= SnippetChars
              /\ ev.op /= "job_draft_from_video" =>
                    /\ Len(a.exc.snippet) = IF Len(text) < SnippetChars
                                            THEN Len(text) ELSE SnippetChars
                    /\ a.exc.snippet =
                          SubSeq(text, Len(text) - Len(a.exc.snippet) + 1, Len(text))
                    /\ ev.outcome =
                          IF ev.task.retries < (IF ev.op = "process_upload"
                                                THEN UploadMaxRetries
                                                ELSE ChunkMaxRetries)
                          THEN "retry" ELSE "failed"
                    /\ ev.outcome = "retry" => Resent(ev)
              /\ ev.op = "job_draft_from_video" =>
                    /\ a.exc.snippet = <<>>
                    /\ ev.code = 500
    /\ (ev.op \in TranscodeSteps /\ ev.attempt.returncode = 0) =>
          /\ ~ev.attempt.exc.raised
          /\ ev.attempt.status = "ok"

\* an upload task was sent again after ffmpeg failed with more than
\* SnippetChars characters of stderr, of which the exception holds the last
\* SnippetChars
C36_Witness ==
    /\ ev.op = "process_upload"
    /\ ev.attempt.returncode /= 0
    /\ Len(Strip(ev.attempt.stderr)) > SnippetChars
    /\ ev.attempt.exc.snippet = Filled
    /\ ev.outcome = "retry"
    /\ Retried(ev.task) \in Pending

====
